---- MODULE Spec2Model ----
(***************************************************************************)
(* A model of the BASIC interpreter of chaosotter/python-basic:             *)
(*   - the lexer (lib/parser/token_stream.py, lib/parser/token.py),         *)
(*   - the value engine and the Add / And expressions (lib/value,           *)
(*     lib/expression),                                                     *)
(*   - the recursive-descent parser (lib/parser/parser.py),                 *)
(*   - the execution engine of section 4.6 of the specification, for which  *)
(*     the repository holds only the parser that builds its statements.     *)
(*                                                                         *)
(* Reading convention.  The sources are Python 2 and several names in them  *)
(* do not resolve as written (TokenStream.Eof for EOF, `this` for `self`    *)
(* in Token.__init__, stream.require for Require, a local `token` that      *)
(* shadows the token module in Parser._ReadCommand, modules used without    *)
(* an import).  The model reads each such name as the definition it         *)
(* evidently refers to and models the logic of the code beyond it; every    *)
(* place where this is done is marked "name:" in the comments.  As written, *)
(* each of these raises AttributeError or NameError at its first use.       *)
(*                                                                         *)
(* Text is a string, its characters the one-character strings.  NUL        *)
(* stands for the '\0' the lexer reads at the end of the buffer.  A Python  *)
(* float is a decimal m * 10^e with m not divisible by 10 (all literals     *)
(* within the bounds are exactly representable to the 12 digits str()       *)
(* prints).                                                                 *)
(***************************************************************************)
EXTENDS Integers, Sequences, FiniteSets, TLC

VARIABLES
    buffer,     \* TokenStream.buffer
    offset,     \* TokenStream.offset
    peek,       \* TokenStream.peek: a token, or NoToken for None
    lexOut,     \* outcome of the last Get / Peek call
    got,        \* tokens returned by Get so far, in order
    valA,       \* value of EAdd.exp_a / EAnd.exp_a
    valB,       \* value of EAdd.exp_b / EAnd.exp_b
    evalOp,     \* the expression evaluated: "Add", "And", or "none" yet
    evalOut,    \* outcome of that Evaluate call
    evaluated,  \* the operand expressions that call has evaluated, in order
    program,    \* system.State.program: the lines, in line order
    parseOut,   \* outcome of the last Parser.Read call
    rt,         \* Runtime: the state of execution (Basic.rt)
    typed,      \* the numbered lines as they were typed, by line number
    keyboard,   \* the lines of tokens that are typed in this session
    executed,   \* what the last Basic.Execute returned and wrote to the screen
    stream,     \* Parser.stream: the tokens of the line a Parser is given
    readOut,    \* outcome of the reading method called on that Parser
    scopes,     \* a chain of Environment objects: each one's parent is the
                \* one before it, the first has none
    envOut,     \* outcome of the last call on an Environment of the chain
    envCalls    \* number of calls made on the chain that write

lexVars == <<buffer, offset, peek, lexOut, got>>

evalVars == <<valA, valB, evalOp, evalOut, evaluated>>

parseVars == <<program, parseOut>>

runVars == <<rt, typed, keyboard, executed>>

readVars == <<stream, readOut>>

envVars == <<scopes, envOut, envCalls>>

vars == <<lexVars, evalVars, parseVars, runVars, readVars, envVars>>

\* The variables of the other components, which a component leaves alone
notLex == <<evalVars, parseVars, runVars, readVars, envVars>>

notEval == <<lexVars, parseVars, runVars, readVars, envVars>>

notParse == <<lexVars, evalVars, runVars, readVars, envVars>>

notRun == <<lexVars, evalVars, readVars, envVars>>

(***************************************************************************)
(* Bounds of the model.                                                     *)
(***************************************************************************)
MaxBufLen == 3

MaxGets == 4

MaxOperand == 2

MaxStrLen == 2

\* Longest line of tokens typed at the prompt, after its line number
MaxLineLen == 2

(***************************************************************************)
(* Characters.                                                              *)
(***************************************************************************)
NUL == "NUL"

UpperChars ==
    "ABCDEFGHIJKLMNOPQRSTUVWXYZ"

LowerChars ==
    "abcdefghijklmnopqrstuvwxyz"

\* The sequences of elements of S of length up to n
RECURSIVE SeqsOfUpTo(_, _)
SeqsOfUpTo(S, n) ==
    IF n = 0 THEN {<<>>}
    ELSE LET shorter == SeqsOfUpTo(S, n - 1)
         IN  shorter \cup { Append(s, x) : s \in shorter, x \in S }

\* The texts of characters of S of length up to n
RECURSIVE SeqsUpTo(_, _)
SeqsUpTo(S, n) ==
    IF n = 0 THEN {""}
    ELSE LET shorter == SeqsUpTo(S, n - 1)
         IN  shorter \cup { s \o c : s \in shorter, c \in S }

DigitChars ==
    "0123456789"

\* The i-th character of a text
CharOf(s, i) == SubSeq(s, i, i)

RangeOf(s) == { CharOf(s, i) : i \in 1..Len(s) }

\* TokenStream._IsDigit
IsDigit(ch) == ch \in RangeOf(DigitChars)

\* TokenStream._IsHex
IsHex(ch) ==
    \/ ch \in RangeOf(DigitChars)
    \/ ch \in {"A","B","C","D","E","F"}
    \/ ch \in {"a","b","c","d","e","f"}

\* TokenStream._IsLetter
IsLetter(ch) == ch \in RangeOf(UpperChars) \/ ch \in RangeOf(LowerChars)

\* TokenStream._IsWhitespace
IsWhitespace(ch) == ch \in {" ", "\t", "\n", "\r", "\f"}

IndexIn(s, ch) == CHOOSE i \in 1..Len(s) : SubSeq(s, i, i) = ch

\* str.upper() and str.lower(), one character and a whole text
UpperCh(ch) ==
    IF ch \in RangeOf(LowerChars) THEN CharOf(UpperChars, IndexIn(LowerChars, ch)) ELSE ch

LowerCh(ch) ==
    IF ch \in RangeOf(UpperChars) THEN CharOf(LowerChars, IndexIn(UpperChars, ch)) ELSE ch

RECURSIVE Upper(_)
Upper(text) ==
    IF text = "" THEN "" ELSE UpperCh(Head(text)) \o Upper(Tail(text))

RECURSIVE Lower(_)
Lower(text) ==
    IF text = "" THEN "" ELSE LowerCh(Head(text)) \o Lower(Tail(text))

DigitVal(ch) ==
    IF IsDigit(ch) THEN IndexIn(DigitChars, ch) - 1
    ELSE IF ch \in {"A","a"} THEN 10
    ELSE IF ch \in {"B","b"} THEN 11
    ELSE IF ch \in {"C","c"} THEN 12
    ELSE IF ch \in {"D","d"} THEN 13
    ELSE IF ch \in {"E","e"} THEN 14
    ELSE 15

RECURSIVE Pow(_, _)
Pow(b, n) == IF n = 0 THEN 1 ELSE b * Pow(b, n - 1)

\* int(text, base) of a text of digits of that base; the caller checks that
\* the text is not empty (int('', base) raises ValueError)
RECURSIVE IntOf(_, _)
IntOf(text, base) ==
    IF text = "" THEN 0
    ELSE IntOf(SubSeq(text, 1, Len(text) - 1), base) * base
         + DigitVal(CharOf(text, Len(text)))

\* str(n), bin(n)[2:], hex(n)[2:] of an integer n >= 0
RECURSIVE DigitsOf(_, _)
DigitsOf(n, base) ==
    LET hexdigits == DigitChars \o "abcdef"
    IN  IF n < base THEN CharOf(hexdigits, n + 1)
        ELSE DigitsOf(n \div base, base) \o CharOf(hexdigits, (n % base) + 1)

(***************************************************************************)
(* Floats: float(text) and str(float) of Python 2.                          *)
(***************************************************************************)
RECURSIVE Norm(_, _)
Norm(m, e) ==
    IF m = 0 THEN [m |-> 0, e |-> 0]
    ELSE IF m % 10 = 0 THEN Norm(m \div 10, e + 1)
    ELSE [m |-> m, e |-> e]

EPos(acc) ==
    IF \E i \in 1..Len(acc) : CharOf(acc, i) \in {"E","e"}
    THEN CHOOSE i \in 1..Len(acc) :
            /\ CharOf(acc, i) \in {"E","e"}
            /\ \A j \in 1..(i - 1) : CharOf(acc, j) \notin {"E","e"}
    ELSE 0

\* The mantissa digits and the exponent part of a text ".ddd[e[+-]ddd]"
MantOf(acc) ==
    IF EPos(acc) = 0 THEN SubSeq(acc, 2, Len(acc))
    ELSE SubSeq(acc, 2, EPos(acc) - 1)

ExpPartOf(acc) ==
    IF EPos(acc) = 0 THEN "" ELSE SubSeq(acc, EPos(acc) + 1, Len(acc))

ExpDigitsOf(acc) ==
    LET x == ExpPartOf(acc)
    IN  IF x # "" /\ Head(x) \in {"+","-"} THEN Tail(x) ELSE x

\* float(acc) raises ValueError when there is no mantissa digit or no
\* exponent digit after an 'e'
FloatValid(acc) ==
    /\ MantOf(acc) # ""
    /\ EPos(acc) # 0 => ExpDigitsOf(acc) # ""

FloatOf(acc) ==
    LET x    == ExpPartOf(acc)
        xabs == IntOf(ExpDigitsOf(acc), 10)
        xval == IF x # "" /\ Head(x) = "-" THEN 0 - xabs ELSE xabs
    IN  Norm(IntOf(MantOf(acc), 10), xval - Len(MantOf(acc)))

RECURSIVE Zeros(_)
Zeros(n) == IF n <= 0 THEN "" ELSE "0" \o Zeros(n - 1)

\* str(f) for a float f = m * 10^e >= 0: '%.12g', and '.0' added to a
\* result that shows neither a point nor an exponent
StrFloat(m, e) ==
    LET ds == DigitsOf(m, 10)
        n  == Len(ds)
        x  == n + e - 1
        xd == DigitsOf(IF x < 0 THEN 0 - x ELSE x, 10)
    IN  IF m = 0 THEN "0.0"
        ELSE IF x < 0 - 4 \/ x >= 12
        THEN Head(ds)
             \o (IF n > 1 THEN "." \o SubSeq(ds, 2, n) ELSE "")
             \o "e" \o (IF x < 0 THEN "-" ELSE "+")
             \o (IF Len(xd) < 2 THEN "0" \o xd ELSE xd)
        ELSE IF e >= 0 THEN ds \o Zeros(e) \o ".0"
        ELSE IF n + e > 0
        THEN SubSeq(ds, 1, n + e) \o "." \o SubSeq(ds, n + e + 1, n)
        ELSE "0." \o Zeros(0 - (n + e)) \o ds

(***************************************************************************)
(* Tokens (lib/parser/token.py).  A token is its type and its value; the    *)
(* value is held in num (an integer, or a float's m), exp (a float's e)     *)
(* and text (a string), the fields the type does not use being 0 and "".  *)
(***************************************************************************)
Tok(type, num, exp, text) ==
    [type |-> type, num |-> num, exp |-> exp, text |-> text]

NoToken == Tok("NONE", 0, 0, "")

IdTypes == {"ID_FLOAT", "ID_INT", "ID_STRING"}

\* Token.IsId
IsId(tok) == tok.type \in IdTypes

\* Token.IsInt
IsInt(tok) == tok.type \in {"INT", "INT_BIN", "INT_HEX"}

\* Token.IsKeyword
IsKeyword(tok, keyword) == tok.type = "KEYWORD" /\ tok.text = keyword

FUNCTIONS ==
    { "ABS",
      "ACOS",
      "ASC",
      "ASIN",
      "ATAN",
      "ATAN2",
      "BIN$",
      "CHR$",
      "COS",
      "DATE$",
      "EXP",
      "HEX$",
      "INSTR",
      "INT",
      "LEFT$",
      "LEN",
      "LOG",
      "LOOK",
      "MID$",
      "POS",
      "RIGHT$",
      "RND",
      "SGN",
      "SIN",
      "SIZE",
      "SPACE$",
      "SQR",
      "STR$",
      "STRING$",
      "TAB",
      "TAN",
      "TIME$",
      "VAL" }

KEYWORDS ==
    { "AND",
      "CLEAR",
      "CLS",
      "COLOR",
      "CURSOR",
      "DATA",
      "DEF",
      "DELETE",
      "DIM",
      "ELSE",
      "END",
      "FILES",
      "FOLDER",
      "FOLDERS",
      "FOR",
      "GET",
      "GOSUB",
      "GOTO",
      "IF",
      "INPUT",
      "LET",
      "LIST",
      "LOAD",
      "LOCATE",
      "MOD",
      "NEW",
      "NEXT",
      "NOT",
      "PAUSE",
      "PRINT",
      "OFF",
      "ON",
      "OR",
      "RANDOMIZE",
      "READ",
      "REMOVE",
      "RENUM",
      "RESTORE",
      "RETURN",
      "RUN",
      "SAVE",
      "STEP",
      "STOP",
      "THEN",
      "TO",
      "TROFF",
      "TRON",
      "WEND",
      "WHILE",
      "WIDTH" }

\* Token.__init__ as it would be if the text were compared as written,
\* not in upper case
TokenAsWritten(type, num, exp, text) ==
    IF text # "" /\ type \in {"ID_FLOAT", "ID_STRING"} /\ text \in KEYWORDS
    THEN Tok("KEYWORD", 0, 0, text)
    ELSE IF text # "" /\ type \in {"ID_FLOAT", "ID_STRING"}
            /\ text \in FUNCTIONS
    THEN Tok("FUNCTION", 0, 0, text)
    ELSE IF text # "" /\ type \in IdTypes
    THEN Tok(type, 0, 0, Lower(text))
    ELSE Tok(type, num, exp, text)

\* Token.__init__ (name: `this` is read as `self`).  Only a value that is
\* true in Python (here a non-empty text) is looked at; ID_INT is not among
\* the types that are promoted to KEYWORD or FUNCTION.
Token(type, num, exp, text) ==
    LET id == Upper(text)
    IN  IF text # "" /\ type \in {"ID_FLOAT", "ID_STRING"} /\ id \in KEYWORDS
        THEN Tok("KEYWORD", 0, 0, id)
        ELSE IF text # "" /\ type \in {"ID_FLOAT", "ID_STRING"}
                /\ id \in FUNCTIONS
        THEN Tok("FUNCTION", 0, 0, id)
        ELSE IF text # "" /\ type \in IdTypes
        THEN Tok(type, 0, 0, Lower(text))
        ELSE Tok(type, num, exp, text)

Line10 ==
    "10 PRINT \"HI\";A%"

\* Token.__str__: the text of a token, ok FALSE where the method returns
\* None (no branch for its type, so that str(token) raises TypeError)
TokenStr(tok) ==
    LET Str(text) == [ok |-> TRUE, text |-> text]
    IN  CASE tok.type = "EOF" -> Str("")
          [] tok.type = "COLON" -> Str(":")
          [] tok.type = "COMMA" -> Str(",")
          [] tok.type = "COMMENT" -> Str("REM " \o tok.text)
          [] tok.type = "DIVIDE" -> Str("/")
          [] tok.type = "EQUAL" -> Str("=")
          [] tok.type = "FLOAT" -> Str(StrFloat(tok.num, tok.exp))
          [] tok.type = "GEQ" -> Str(">=")
          [] tok.type = "GT" -> Str(">")
          [] tok.type \in IdTypes -> Str(Lower(tok.text))
          [] tok.type = "INT" -> Str(DigitsOf(tok.num, 10))
          [] tok.type = "INT_BIN" -> Str("&B" \o DigitsOf(tok.num, 2))
          [] tok.type = "INT_HEX" -> Str("&H" \o DigitsOf(tok.num, 16))
          [] tok.type = "KEYWORD" -> Str(tok.text)
          [] tok.type = "LEQ" -> Str("<=")
          [] tok.type = "LPAREN" -> Str("(")
          [] tok.type = "LT" -> Str("<")
          [] tok.type = "MINUS" -> Str("-")
          [] tok.type = "NEQUAL" -> Str("<>")
          [] tok.type = "PLUS" -> Str("+")
          [] tok.type = "RPAREN" -> Str(")")
          [] tok.type = "SEMICOLON" -> Str(";")
          [] tok.type = "STRING" -> Str("\"" \o tok.text \o "\"")
          [] tok.type = "TIMES" -> Str("*")
          [] OTHER -> [ok |-> FALSE, text |-> ""]

(***************************************************************************)
(* The lexer (lib/parser/token_stream.py).                                  *)
(***************************************************************************)
\* What one call of _ReadToken ends in: a token returned, an exception
\* raised (with the character and the column its message carries), or no
\* end at all ("hang": the loop of _ReadToken repeats without a change).
Ret(tok, off) ==
    [kind |-> "token", tok |-> tok, off |-> off, ch |-> NUL, col |-> 0]

Raise(ch, off) ==
    [kind |-> "TokenException", tok |-> NoToken, off |-> off,
     ch |-> ch, col |-> off]

ValueErr(off) ==
    [kind |-> "ValueError", tok |-> NoToken, off |-> off, ch |-> NUL, col |-> 0]

Hang(off) ==
    [kind |-> "hang", tok |-> NoToken, off |-> off, ch |-> NUL, col |-> 0]

NoCall == [kind |-> "none", tok |-> NoToken, off |-> 0, ch |-> NUL, col |-> 0]

Go(st, acc, off) == [kind |-> "go", st |-> st, acc |-> acc, off |-> off]

\* TokenStream.EOF
EOF(buf, off) == off >= Len(buf)

\* The character the loop of _ReadToken looks at (name: self.Eof is read
\* as self.EOF)
CharAt(buf, off) == IF EOF(buf, off) THEN NUL ELSE CharOf(buf, off + 1)

\* STATE_INIT of _ReadToken: the chain of tests has no final else, so a
\* character that matches none of them leaves state and offset as they are
InitStep(ch, acc, off) ==
    IF ch = "0" THEN Go("EOF", acc, off)
    ELSE IF ch \in {"R", "r"} THEN Go("REM1", acc \o ch, off + 1)
    ELSE IF IsLetter(ch) THEN Go("ID", acc \o ch, off + 1)
    ELSE IF IsDigit(ch) THEN Go("INT", acc \o ch, off + 1)
    ELSE IF ch = "." THEN Go("FLOAT1", acc \o ch, off + 1)
    ELSE IF ch = "&" THEN Go("BASE", acc, off + 1)
    ELSE IF ch = ":" THEN Go("COLON", acc, off + 1)
    ELSE IF ch = "," THEN Go("COMMA", acc, off + 1)
    ELSE IF ch = "'" THEN Go("COMMENT", acc, off + 1)
    ELSE IF ch = "/" THEN Go("DIVIDE", acc, off + 1)
    ELSE IF ch = "=" THEN Go("EQUAL", acc, off + 1)
    ELSE IF ch = ">" THEN Go("GT", acc, off + 1)
    ELSE IF ch = "<" THEN Go("LT", acc, off + 1)
    ELSE IF ch = "(" THEN Go("LPAREN", acc, off + 1)
    ELSE IF ch = "-" THEN Go("MINUS", acc, off + 1)
    ELSE IF ch = "+" THEN Go("PLUS", acc, off + 1)
    ELSE IF ch = "^" THEN Go("POWER", acc, off + 1)
    ELSE IF ch = "?" THEN Go("QUESTION", acc, off + 1)
    ELSE IF ch = ")" THEN Go("RPAREN", acc, off + 1)
    ELSE IF ch = ";" THEN Go("SEMICOLON", acc, off + 1)
    ELSE IF ch = "\"" THEN Go("STRING", acc, off + 1)
    ELSE IF ch = "*" THEN Go("TIMES", acc, off + 1)
    ELSE IF IsWhitespace(ch) THEN Go("ERROR", acc, off + 1)
    ELSE Go("INIT", acc, off)

\* One pass of the loop of _ReadToken in a state other than STATE_INIT.
\* STATE_INT has no branch of its own: the pass changes nothing.
StateStep(st, ch, acc, off) ==
    CASE st = "ID" ->
            IF IsLetter(ch) \/ IsDigit(ch) THEN Go("ID", acc \o ch, off + 1)
            ELSE IF ch = "%"
            THEN Ret(Token("ID_INT", 0, 0, acc \o ch), off + 1)
            ELSE IF ch = "$"
            THEN Ret(Token("ID_STRING", 0, 0, acc \o ch), off + 1)
            ELSE Ret(Token("ID_FLOAT", 0, 0, acc), off)
      [] st = "BASE" ->
            IF ch \in {"B", "b"} THEN Go("INT_BIN", acc, off + 1)
            ELSE IF ch \in {"H", "h"} THEN Go("INT_HEX", acc, off + 1)
            ELSE Go("ERROR", acc, off)
      [] st = "INT_BIN" ->
            IF ch \in {"0", "1"} THEN Go("INT_BIN", acc \o ch, off + 1)
            ELSE IF acc = "" THEN ValueErr(off)
            ELSE Ret(Token("INT_BIN", IntOf(acc, 2), 0, ""), off)
      [] st = "INT_HEX" ->
            IF IsHex(ch) THEN Go("INT_HEX", acc \o ch, off + 1)
            ELSE IF acc = "" THEN ValueErr(off)
            ELSE Ret(Token("INT_HEX", IntOf(acc, 16), 0, ""), off)
      [] st = "FLOAT1" ->
            IF IsDigit(ch) THEN Go("FLOAT1", acc \o ch, off + 1)
            ELSE IF ch \in {"E", "e"} THEN Go("FLOAT2", acc \o ch, off + 1)
            ELSE IF ~FloatValid(acc) THEN ValueErr(off)
            ELSE Ret(Token("FLOAT", FloatOf(acc).m, FloatOf(acc).e, ""), off)
      [] st = "FLOAT2" ->
            IF ch \in {"+", "-"} \/ IsDigit(ch)
            THEN Go("FLOAT3", acc \o ch, off + 1)
            ELSE Go("ERROR", acc, off)
      [] st = "FLOAT3" ->
            IF IsDigit(ch) THEN Go("FLOAT3", acc \o ch, off + 1)
            ELSE IF ~FloatValid(acc) THEN ValueErr(off)
            ELSE Ret(Token("FLOAT", FloatOf(acc).m, FloatOf(acc).e, ""), off)
      [] st = "REM1" ->
            IF ch \in {"E", "e"} THEN Go("REM2", acc \o ch, off + 1)
            ELSE Go("ID", acc, off)
      [] st = "REM2" ->
            IF ch \in {"M", "m"} THEN Go("REM3", "", off + 1)
            ELSE Go("ID", acc, off)
      [] st = "REM3" ->
            IF ch = NUL THEN Ret(Token("COMMENT", 0, 0, acc), off)
            ELSE IF ch = " " THEN Go("COMMENT", acc, off + 1)
            ELSE Go("ID", "rem", off)
      [] st = "COMMENT" ->
            IF ch = NUL THEN Ret(Token("COMMENT", 0, 0, acc), off)
            ELSE Go("COMMENT", acc \o ch, off + 1)
      [] st = "STRING" ->
            IF ch = NUL THEN Ret(Token("STRING", 0, 0, acc), off)
            ELSE IF ch = "\"" THEN Ret(Token("STRING", 0, 0, acc), off + 1)
            ELSE Go("STRING", acc \o ch, off + 1)
      [] st = "GT" ->
            IF ch = "=" THEN Ret(Token("GEQ", 0, 0, ""), off + 1)
            ELSE Ret(Token("GT", 0, 0, ""), off)
      [] st = "LT" ->
            IF ch = "=" THEN Ret(Token("LEQ", 0, 0, ""), off + 1)
            ELSE IF ch = ">" THEN Ret(Token("NEQUAL", 0, 0, ""), off + 1)
            ELSE Ret(Token("LT", 0, 0, ""), off)
      [] st \in {"COLON", "COMMA", "DIVIDE", "EQUAL", "LPAREN", "MINUS",
                 "PLUS", "POWER", "RPAREN", "SEMICOLON", "TIMES", "EOF"} ->
            Ret(Token(st, 0, 0, ""), off)
      [] st = "QUESTION" ->
            Ret(Token("KEYWORD", 0, 0, "PRINT"), off)
      [] st = "ERROR" -> Raise(ch, off)
      [] OTHER -> Go(st, acc, off)

LexStep(buf, off, st, acc) ==
    IF st = "INIT" THEN InitStep(CharAt(buf, off), acc, off)
    ELSE StateStep(st, CharAt(buf, off), acc, off)

\* _ReadToken from a given state of its loop.  A pass that changes neither
\* the state, the offset nor the accumulator repeats for ever.
RECURSIVE ReadTokenFrom(_, _, _, _)
ReadTokenFrom(buf, off, st, acc) ==
    LET r == LexStep(buf, off, st, acc)
    IN  IF r.kind # "go" THEN r
        ELSE IF r.st = st /\ r.off = off /\ r.acc = acc THEN Hang(off)
        ELSE ReadTokenFrom(buf, r.off, r.st, r.acc)

\* TokenStream._ReadToken
ReadToken(buf, off) == ReadTokenFrom(buf, off, "INIT", "")

(***************************************************************************)
(* Values (lib/value): Int, Float, String and Null.  A value is its kind    *)
(* and its payload: num (an Int, or a Float's m), exp (a Float's e) and     *)
(* text (a String).  The base class value.Value is not among the sources:   *)
(* its answers (every is-kind test false unless a class overrides it,       *)
(* numeric meaning Int or Float) are those of section 3 of the              *)
(* specification.                                                           *)
(***************************************************************************)
VInt(n) == [kind |-> "Int", num |-> n, exp |-> 0, text |-> ""]

VFloat(m, e) ==
    [kind |-> "Float", num |-> Norm(m, e).m, exp |-> Norm(m, e).e,
     text |-> ""]

VString(s) == [kind |-> "String", num |-> 0, exp |-> 0, text |-> s]

VNull == [kind |-> "Null", num |-> 0, exp |-> 0, text |-> ""]

\* VInt.IsInt, VNull.IsInt (Value.IsInt for the other kinds)
ValIsInt(v) == v.kind \in {"Int", "Null"}

\* VFloat.IsFloat, VNull.IsFloat (Value.IsFloat for the other kinds)
ValIsFloat(v) == v.kind \in {"Float", "Null"}

\* IsString as it would be were VNull.IsString not defined
ValIsStringOfStrings(v) == v.kind = "String"

\* VString.IsString, VNull.IsString (Value.IsString for the other kinds)
ValIsString(v) == v.kind \in {"String", "Null"}

\* Value.IsNumeric
ValIsNumeric(v) == ValIsInt(v) \/ ValIsFloat(v)

\* int(f) of a float f = m * 10^e: truncation towards zero
TruncFloat(m, e) ==
    IF e >= 0 THEN m * Pow(10, e)
    ELSE IF m >= 0 THEN m \div Pow(10, 0 - e)
    ELSE 0 - ((0 - m) \div Pow(10, 0 - e))

\* VInt.AsInt, VFloat.AsInt, VNull.AsInt (called on numeric values only)
AsInt(v) ==
    IF v.kind = "Int" THEN v.num
    ELSE IF v.kind = "Float" THEN TruncFloat(v.num, v.exp)
    ELSE 0

\* VInt.AsFloat, VFloat.AsFloat, VNull.AsFloat (called on numeric values only)
AsFloat(v) ==
    IF v.kind = "Int" THEN Norm(v.num, 0)
    ELSE IF v.kind = "Float" THEN [m |-> v.num, e |-> v.exp]
    ELSE [m |-> 0, e |-> 0]

\* VString.AsString, VNull.AsString
AsString(v) == IF v.kind = "String" THEN v.text ELSE ""

\* The sum of two floats (Python's + gives the double nearest to it)
FloatAdd(f, g) ==
    LET lo == IF f.e < g.e THEN f.e ELSE g.e
    IN  Norm(f.m * Pow(10, f.e - lo) + g.m * Pow(10, g.e - lo), lo)

(***************************************************************************)
(* Expressions (lib/expression): EAdd and EAnd over two operand             *)
(* expressions that evaluate to valA and valB.                              *)
(***************************************************************************)
Returned(v) == [kind |-> "value", val |-> v, code |-> "none"]

EvalException(code) == [kind |-> "EvalException", val |-> VNull, code |-> code]

NoEval == [kind |-> "none", val |-> VNull, code |-> "none"]

\* EAdd.Evaluate with its first test left out: Int + Int is widened
EAddEvaluateWidening(a, b) ==
    IF ValIsNumeric(a) /\ ValIsNumeric(b)
    THEN Returned(VFloat(FloatAdd(AsFloat(a), AsFloat(b)).m,
                         FloatAdd(AsFloat(a), AsFloat(b)).e))
    ELSE IF ValIsString(a) /\ ValIsString(b)
    THEN Returned(VString(AsString(a) \o AsString(b)))
    ELSE EvalException("ERR_TYPE")

\* EAdd.Evaluate
EAddEvaluate(a, b) ==
    IF ValIsInt(a) /\ ValIsInt(b) THEN Returned(VInt(AsInt(a) + AsInt(b)))
    ELSE IF ValIsNumeric(a) /\ ValIsNumeric(b)
    THEN Returned(VFloat(FloatAdd(AsFloat(a), AsFloat(b)).m,
                      FloatAdd(AsFloat(a), AsFloat(b)).e))
    ELSE IF ValIsString(a) /\ ValIsString(b)
    THEN Returned(VString(AsString(a) \o AsString(b)))
    ELSE EvalException("ERR_TYPE")

\* Python's & of two integers (two's complement of unbounded width)
RECURSIVE BitAnd(_, _)
BitAnd(x, y) ==
    IF x = 0 \/ y = 0 THEN 0
    ELSE IF x = 0 - 1 THEN y
    ELSE IF y = 0 - 1 THEN x
    ELSE (x % 2) * (y % 2) + 2 * BitAnd(x \div 2, y \div 2)

\* Expression.EvaluateToNumeric, val the value self.Evaluate(rt) returned
\* name: the raise names exception.EvaluationException, where eadd.py names
\* exception.EvalException; it is read as that type error
EvaluateToNumeric(val) ==
    IF ValIsNumeric(val) THEN Returned(val) ELSE EvalException("ERR_TYPE")

\* EAnd.Evaluate as it would be were a zero on the left the result at once
EAndEvaluateShortCircuit(a, b) ==
    IF EvaluateToNumeric(a).kind # "value" THEN EvaluateToNumeric(a)
    ELSE IF AsInt(a) = 0 THEN Returned(VInt(0))
    ELSE IF EvaluateToNumeric(b).kind # "value" THEN EvaluateToNumeric(b)
    ELSE Returned(VInt(BitAnd(AsInt(a), AsInt(b))))

\* EAnd.Evaluate
EAndEvaluate(a, b) ==
    IF EvaluateToNumeric(a).kind # "value" THEN EvaluateToNumeric(a)
    ELSE IF EvaluateToNumeric(b).kind # "value" THEN EvaluateToNumeric(b)
    ELSE Returned(VInt(BitAnd(AsInt(a), AsInt(b))))

\* EAnd.Evaluate: the operand expressions evaluated, in order; the raise of
\* the first EvaluateToNumeric leaves the method before exp_b is evaluated
EAndOperands(a, b) ==
    IF EvaluateToNumeric(a).kind # "value" THEN <<"exp_a">>
    ELSE <<"exp_a", "exp_b">>

\* The operand values tried
IntValues == { VInt(n) : n \in (0 - MaxOperand)..MaxOperand }

FloatValues ==
    { VFloat(m, e) : m \in (0 - MaxOperand)..MaxOperand, e \in {0 - 1, 0} }

StringValues == { VString(s) : s \in SeqsUpTo({"a", "b"}, MaxStrLen) }

\* Strings tried as filenames: of 40 and of 41 characters, with a space
\* inside, in front and behind, and with characters of every class
Forty == "abcdefghijklmnopqrstuvwxyz0123456789-_.A"

FilenameValues ==
    { VString(s) : s \in {" a", "a ", "a b", "Z9-_.", "a#", "a/b", " ",
                           Forty, Forty \o "b"} }

Values ==
    IntValues \cup FloatValues \cup StringValues \cup FilenameValues
    \cup {VNull}

\* What a method that answers yes or no returned
Answered(yes) ==
    [kind |-> "answer", val |-> VNull, code |-> IF yes THEN "True" ELSE "False"]

\* VString.IsValidFilename: the logic is a comment, False is returned
IsValidFilename(v) == FALSE

EvalIdle ==
    /\ valA = VNull
    /\ valB = VNull
    /\ evalOp = "none"
    /\ evalOut = NoEval
    /\ evaluated = <<>>

LexIdle ==
    /\ buffer = ""
    /\ offset = 0
    /\ peek = NoToken
    /\ lexOut = NoCall
    /\ got = <<>>

NoRead == [kind |-> "none", node |-> [k |-> "None"], err |-> <<>>,
           caught |-> <<>>]

ParseIdle ==
    /\ program = <<>>
    /\ parseOut = NoRead

\* An address of a statement: a line and the offset within its line
Address(line, at) == [line |-> line, offset |-> at]

\* The DATA cursor: a line, and the items already read from there on
Cursor(line, item) == [line |-> line, item |-> item]

NoFailure == [kind |-> "none", line |-> 0]

\* Environment.scalars of a new Environment (its two built-in variables
\* are left out)
NoScalars == [id \in {} |-> VNull]

NoLines == [line \in {} |-> <<>>]

\* Runtime before the first RUN: the state of the engine, the
\* next-statement pointer, the return stack and the loop stack (top
\* first), the DATA cursor, the scalars of the environment, the failure
\* that halted the last run, and the values read since the cursor was set
Ready ==
    [state |-> "Ready", pointer |-> Address(0, 0), returns |-> <<>>,
     loops |-> <<>>, cursor |-> Cursor(0, 0), env |-> NoScalars,
     failure |-> NoFailure, reads |-> <<>>]

\* Basic.Execute has not been called
NoExecute == [returned |-> "none", screen |-> <<>>]

RunIdle ==
    /\ rt = Ready
    /\ typed = NoLines
    /\ keyboard = {}
    /\ executed = NoExecute

\* No reading method has been called
NoResult ==
    [method |-> "none", ok |-> FALSE, node |-> [k |-> "None"], pos |-> 0,
     err |-> <<>>]

ReadIdle ==
    /\ stream = <<>>
    /\ readOut = NoResult

\* No call has been made on an Environment
NoOutcome == [kind |-> "none", val |-> VNull]

EnvIdle ==
    /\ scopes = <<>>
    /\ envOut = NoOutcome
    /\ envCalls = 0

InitEval ==
    /\ valA \in Values
    /\ valB \in Values
    /\ evalOp = "none"
    /\ evalOut = NoEval
    /\ evaluated = <<>>
    /\ LexIdle
    /\ ParseIdle
    /\ RunIdle
    /\ ReadIdle
    /\ EnvIdle

\* EAdd.Evaluate on the two operands
EvaluateAdd ==
    /\ evalOp = "none"
    /\ evalOp' = "Add"
    /\ evalOut' = EAddEvaluate(valA, valB)
    /\ evaluated' = <<"exp_a", "exp_b">>
    /\ UNCHANGED <<valA, valB, notEval>>

\* EAnd.Evaluate on the two operands
EvaluateAnd ==
    /\ evalOp = "none"
    /\ evalOp' = "And"
    /\ evalOut' = EAndEvaluate(valA, valB)
    /\ evaluated' = EAndOperands(valA, valB)
    /\ UNCHANGED <<valA, valB, notEval>>

\* VString.IsValidFilename on the first operand, a String
CallIsValidFilename ==
    /\ evalOp = "none"
    /\ valA.kind = "String"
    /\ evalOp' = "IsValidFilename"
    /\ evalOut' = Answered(IsValidFilename(valA))
    /\ evaluated' = <<>>
    /\ UNCHANGED <<valA, valB, notEval>>

NextEval ==
    \/ EvaluateAdd
    \/ EvaluateAnd
    \/ CallIsValidFilename

SpecEval == InitEval /\ [][NextEval]_vars

(***************************************************************************)
(* The token stream as a state machine: one stream over a buffer, and the   *)
(* calls Get and Peek on it.           A call of _ReadToken that never ends   *)
(* leaves the stream in that call: nothing follows it.                      *)
(***************************************************************************)
LexAlphabet == {"a", "1", "0", " ", "#", "%", "$", ".", ";", "^", "\""}

\* Buffers with identifiers: keywords, function names and variables, in
\* either case, with and without a sigil
IdBuffers ==
    {"If", "if;", "TO", "to$", "on%", "chr$;", "CHR", "Abs", "abs%", "pi",
     "rem", "REM x", "rem;", "remove", "Rex", "r1$", "a;b%;Or"}

\* Buffers with numbers: digits, with and without a fractional part and
\* an exponent
NumBuffers == {"12;", "1.5", ".5;", "2.5E3", ".5e-2", "1e2;", ".25e+1;"}

LexBuffers ==
    SeqsUpTo(LexAlphabet, MaxBufLen) \cup {Line10} \cup IdBuffers
    \cup NumBuffers

\* TokenStream.__init__
InitLex ==
    /\ buffer \in LexBuffers
    /\ offset = 0
    /\ peek = NoToken
    /\ lexOut = NoCall
    /\ got = <<>>
    /\ EvalIdle
    /\ ParseIdle
    /\ RunIdle
    /\ ReadIdle
    /\ EnvIdle

\* TokenStream.Get
Get ==
    /\ lexOut.kind # "hang"
    /\ Len(got) < MaxGets
    /\ IF peek # NoToken
       THEN /\ peek' = NoToken
            /\ lexOut' = Ret(peek, offset)
            /\ got' = Append(got, peek)
            /\ UNCHANGED offset
       ELSE LET r == ReadToken(buffer, offset)
            IN  /\ offset' = r.off
                /\ lexOut' = r
                /\ got' = IF r.kind = "token" THEN Append(got, r.tok) ELSE got
                /\ UNCHANGED peek
    /\ UNCHANGED <<buffer, notLex>>

\* TokenStream.Peek as it would be if it did not hold the token it read
PeekForgetful ==
    /\ lexOut.kind # "hang"
    /\ IF peek # NoToken
       THEN /\ lexOut' = Ret(peek, offset)
            /\ UNCHANGED <<offset, peek>>
       ELSE /\ offset' = ReadToken(buffer, offset).off
            /\ lexOut' = ReadToken(buffer, offset)
            /\ UNCHANGED peek
    /\ UNCHANGED <<buffer, got, notLex>>

\* TokenStream.Peek
Peek ==
    /\ lexOut.kind # "hang"
    /\ IF peek # NoToken
       THEN /\ lexOut' = Ret(peek, offset)
            /\ UNCHANGED <<offset, peek>>
       ELSE LET r == ReadToken(buffer, offset)
            IN  /\ offset' = r.off
                /\ lexOut' = r
                /\ peek' = IF r.kind = "token" THEN r.tok ELSE peek
    /\ UNCHANGED <<buffer, got, notLex>>

NextLex == Get \/ Peek

SpecLex == InitLex /\ [][NextLex]_vars


(***************************************************************************)
(* The parser (lib/parser/parser.py).  It reads its tokens from a stream    *)
(* through Peek, Get and the Require methods; here the stream is given by   *)
(* the sequence ts of the tokens it yields, followed by EOF tokens, and pos *)
(* is the number of tokens consumed.  A LEXERR entry of ts is a place       *)
(* where the stream raises the lexical error instead of yielding a token.   *)
(*                                                                         *)
(* A parsing method returns [ok, node, pos, err]: ok with the tree built    *)
(* and the new position, or not ok with the chain of construct names of     *)
(* the ParserException raised, outermost first.  A tree node is a record    *)
(* with its class in k; a list of nodes is a node with the sequence in      *)
(* args.                                                                    *)
(***************************************************************************)
T(type) == Tok(type, 0, 0, "")

TKey(word) == Tok("KEYWORD", 0, 0, word)

TFun(word) == Tok("FUNCTION", 0, 0, word)

TInt(n) == Tok("INT", n, 0, "")

TFloat(m, e) == Tok("FLOAT", m, e, "")

TStr(s) == Tok("STRING", 0, 0, s)

TId(name) ==
    Tok(IF CharOf(name, Len(name)) = "%" THEN "ID_INT"
        ELSE IF CharOf(name, Len(name)) = "$" THEN "ID_STRING"
        ELSE "ID_FLOAT",
        0, 0, name)

LEXERR == T("LEXERR")

None == [k |-> "None"]

Ok(node, pos) == [ok |-> TRUE, node |-> node, pos |-> pos, err |-> <<>>]

Fail(err) == [ok |-> FALSE, node |-> None, pos |-> 0, err |-> err]

\* except Exception as e: raise exception.ParserException(name, e)
Wrap(name, r) == IF r.ok THEN r ELSE Fail(<<name>> \o r.err)

\* The token a Peek or Get at pos yields
PeekTok(ts, pos) == IF pos < Len(ts) THEN ts[pos + 1] ELSE T("EOF")

\* TokenStream.Peek raises (the error of _ReadToken)
PeekFails(ts, pos) == PeekTok(ts, pos).type = "LEXERR"

TokenException == Fail(<<"TokenException">>)

\* A token read, as the node a method returns
TokNode(tok) ==
    [k |-> "Token", type |-> tok.type, n |-> tok.num, exp |-> tok.exp,
     text |-> tok.text]

\* TokenStream.Get
GetTok(ts, pos) ==
    IF PeekFails(ts, pos) THEN TokenException
    ELSE Ok(TokNode(PeekTok(ts, pos)), pos + 1)

\* TokenStream.Require
Require(ts, pos, type) ==
    IF PeekFails(ts, pos) THEN TokenException
    ELSE IF PeekTok(ts, pos).type = type THEN GetTok(ts, pos)
    ELSE Fail(<<"Unexpected input">>)

\* TokenStream.RequireKeyword
RequireKeyword(ts, pos, keyword) ==
    IF PeekFails(ts, pos) THEN TokenException
    ELSE IF IsKeyword(PeekTok(ts, pos), keyword) THEN GetTok(ts, pos)
    ELSE Fail(<<"Unexpected input">>)

\* TokenStream.RequireId
RequireId(ts, pos) ==
    IF PeekFails(ts, pos) THEN TokenException
    ELSE IF IsId(PeekTok(ts, pos)) THEN GetTok(ts, pos)
    ELSE Fail(<<"Unexpected input">>)

\* TokenStream.RequireInt
RequireInt(ts, pos) ==
    IF PeekFails(ts, pos) THEN TokenException
    ELSE IF IsInt(PeekTok(ts, pos)) THEN GetTok(ts, pos)
    ELSE Fail(<<"Unexpected input">>)

\* TokenStream.AtTerminator, where Peek does not raise
AtTerminator(ts, pos) ==
    LET tok == PeekTok(ts, pos)
    IN  \/ tok.type = "EOF"
        \/ tok.type = "COLON"
        \/ IsKeyword(tok, "ELSE")

\* Token.IsFn
IsFn(tok) ==
    /\ IsId(tok)
    /\ Len(tok.text) >= 3
    /\ SubSeq(tok.text, 1, 2) = "fn"

\* The expression and statement classes, as the parser constructs them
Node0(k) == [k |-> k]

Node1(k, a) == [k |-> k, a |-> a]

Node2(k, a, b) == [k |-> k, a |-> a, b |-> b]

Node3(k, a, b, c) == [k |-> k, a |-> a, b |-> b, c |-> c]

NodeList(list) == [k |-> "list", args |-> list]

ERelational(rel, a, b) == [k |-> "ERelational", rel |-> rel, a |-> a, b |-> b]

EInt(n, base) == [k |-> "EInt", n |-> n, base |-> base]

EFloat(m, e) == [k |-> "EFloat", n |-> m, exp |-> e]

EString(s) == [k |-> "EString", text |-> s]

ELValue(tok) == [k |-> "ELValue", type |-> tok.type, text |-> tok.text]

ELValueArray(tok, list) ==
    [k |-> "ELValueArray", type |-> tok.type, text |-> tok.text,
     args |-> list]

EFn(name, list) == [k |-> "EFn", text |-> name, args |-> list]

\* Parser._ReadInt
ReadInt(ts, pos) ==
    LET g == RequireInt(ts, pos)
    IN  IF ~g.ok THEN Wrap("constant", g)
        ELSE IF g.node.type = "INT" THEN Ok(EInt(g.node.n, 10), g.pos)
        ELSE IF g.node.type = "INT_BIN" THEN Ok(EInt(g.node.n, 2), g.pos)
        ELSE Ok(EInt(g.node.n, 16), g.pos)

\* Parser._ReadLiteral
ReadLiteral(ts, pos) ==
    LET tok == PeekTok(ts, pos)
    IN  IF PeekFails(ts, pos) THEN Wrap("constant", TokenException)
        ELSE IF tok.type = "STRING" THEN Ok(EString(tok.text), pos + 1)
        ELSE IF tok.type = "FLOAT" THEN Ok(EFloat(tok.num, tok.exp), pos + 1)
        ELSE IF IsInt(tok) THEN Wrap("constant", ReadInt(ts, pos))
        ELSE Fail(<<"constant", "expression">>)

\* The argument counts _ReadCall passes to _ReadExpList: <<min_count,
\* max_count>>, 0 for a count not given
ArgCounts(name) ==
    IF name \in {"ATAN2", "INSTR", "LEFT$", "RIGHT$", "STRING$"} THEN <<2, 0>>
    ELSE IF name = "MID$" THEN <<3, 0>>
    ELSE IF name = "LOOK" THEN <<2, 3>>
    ELSE IF name = "SIZE" THEN <<1, 2>>
    ELSE <<1, 0>>

\* The names _ReadCall knows after the opening parenthesis
CallNames ==
    {"ABS", "ACOS", "ASC", "ASIN", "ATAN", "ATAN2", "BIN$", "COS", "CHR$",
     "EXP", "HEX$", "INSTR", "INT", "LEFT$", "LEN", "LOG", "LOOK", "MID$",
     "POS", "RIGHT$", "RND", "SGN", "SIN", "SIZE", "SPACE$", "SQR", "STR$",
     "STRING$", "TAB", "TAN", "VAL"}

\* The check of the number of expressions as it would be were a max_count
\* that is not given no limit
CountOkOpenEnded(min_count, max_count, n) ==
    ~ \/ (min_count # 0 /\ n < min_count)
      \/ (max_count # 0 /\ n > max_count)

\* The check of the number of expressions at the end of _ReadExpList
CountOk(min_count, max_count, n) ==
    LET mx == IF min_count # 0 /\ max_count = 0 THEN min_count ELSE max_count
    IN  ~ \/ (min_count # 0 /\ n < min_count)
          \/ (mx # 0 /\ n > mx)


\* A call self._ReadX(...) of one reading method from another: the method
\* is looked up by name on the parser, args its arguments (the token
\* sequence and the position stand for self.stream)
RECURSIVE self(_, _)

\* Parser._ReadExp
ReadExp(ts, pos) == self("_ReadExp0", <<ts, pos>>)

\* Parser._ReadExp0: the loop over OR, exp the expression read so far
ReadExp0Rest(ts, pos, exp) ==
    IF PeekFails(ts, pos) THEN Wrap("expression", TokenException)
    ELSE IF IsKeyword(PeekTok(ts, pos), "OR")
    THEN LET r == self("_ReadExp1", <<ts, pos + 1>>)
         IN  IF ~r.ok THEN Wrap("expression", r)
             ELSE self("_ReadExp0Rest", <<ts, r.pos, Node2("EOr", exp, r.node)>>)
    ELSE Ok(exp, pos)

ReadExp0(ts, pos) ==
    LET r == self("_ReadExp1", <<ts, pos>>)
    IN  IF ~r.ok THEN r ELSE self("_ReadExp0Rest", <<ts, r.pos, r.node>>)

\* Parser._ReadExp1: the loop over AND
ReadExp1Rest(ts, pos, exp) ==
    IF PeekFails(ts, pos) THEN Wrap("expression", TokenException)
    ELSE IF IsKeyword(PeekTok(ts, pos), "AND")
    THEN LET r == self("_ReadExp2", <<ts, pos + 1>>)
         IN  IF ~r.ok THEN Wrap("expression", r)
             ELSE self("_ReadExp1Rest", <<ts, r.pos, Node2("EAnd", exp, r.node)>>)
    ELSE Ok(exp, pos)

ReadExp1(ts, pos) ==
    LET r == self("_ReadExp2", <<ts, pos>>)
    IN  IF ~r.ok THEN r ELSE self("_ReadExp1Rest", <<ts, r.pos, r.node>>)

\* Parser._ReadExp2: the loop over = and <>; neither token is consumed
\* before the right operand is read
ReadExp2Rest(ts, pos, exp) ==
    LET tok == PeekTok(ts, pos)
    IN  IF PeekFails(ts, pos) THEN Wrap("expression", TokenException)
        ELSE IF tok.type \in {"EQUAL", "NEQUAL"}
        THEN LET r == self("_ReadExp3", <<ts, pos>>)
                 rel == IF tok.type = "EQUAL" THEN "EQ" ELSE "NEQ"
             IN  IF ~r.ok THEN Wrap("expression", r)
                 ELSE self("_ReadExp2Rest", <<ts, r.pos, ERelational(rel, exp, r.node)>>)
        ELSE Ok(exp, pos)

ReadExp2(ts, pos) ==
    LET r == self("_ReadExp3", <<ts, pos>>)
    IN  IF ~r.ok THEN r ELSE self("_ReadExp2Rest", <<ts, r.pos, r.node>>)

\* Parser._ReadExp3: the loop over >=, >, <=, <
ReadExp3Rest(ts, pos, exp) ==
    LET tok == PeekTok(ts, pos)
    IN  IF PeekFails(ts, pos) THEN Wrap("expression", TokenException)
        ELSE IF tok.type \in {"GEQ", "GT", "LEQ", "LT"}
        THEN LET r == self("_ReadExp4", <<ts, pos + 1>>)
             IN  IF ~r.ok THEN Wrap("expression", r)
                 ELSE self("_ReadExp3Rest", <<ts, r.pos,
                                   ERelational(tok.type, exp, r.node)>>)
        ELSE Ok(exp, pos)

ReadExp3(ts, pos) ==
    LET r == self("_ReadExp4", <<ts, pos>>)
    IN  IF ~r.ok THEN r ELSE self("_ReadExp3Rest", <<ts, r.pos, r.node>>)

\* Parser._ReadExp4: the loop over + and -
ReadExp4Rest(ts, pos, exp) ==
    LET tok == PeekTok(ts, pos)
    IN  IF PeekFails(ts, pos) THEN Wrap("expression", TokenException)
        ELSE IF tok.type \in {"PLUS", "MINUS"}
        THEN LET r == self("_ReadExp5", <<ts, pos + 1>>)
                 k == IF tok.type = "PLUS" THEN "EAdd" ELSE "ESubtract"
             IN  IF ~r.ok THEN Wrap("expression", r)
                 ELSE self("_ReadExp4Rest", <<ts, r.pos, Node2(k, exp, r.node)>>)
        ELSE Ok(exp, pos)

ReadExp4(ts, pos) ==
    LET r == self("_ReadExp5", <<ts, pos>>)
    IN  IF ~r.ok THEN r ELSE self("_ReadExp4Rest", <<ts, r.pos, r.node>>)

\* Parser._ReadExp5: the loop over /, * and MOD
ReadExp5Rest(ts, pos, exp) ==
    LET tok == PeekTok(ts, pos)
    IN  IF PeekFails(ts, pos) THEN Wrap("expression", TokenException)
        ELSE IF tok.type \in {"DIVIDE", "TIMES"} \/ IsKeyword(tok, "MOD")
        THEN LET r == self("_ReadExp6", <<ts, pos + 1>>)
                 k == IF tok.type = "DIVIDE" THEN "EDivide"
                      ELSE IF tok.type = "TIMES" THEN "EMultiply"
                      ELSE "EMod"
             IN  IF ~r.ok THEN Wrap("expression", r)
                 ELSE self("_ReadExp5Rest", <<ts, r.pos, Node2(k, exp, r.node)>>)
        ELSE Ok(exp, pos)

ReadExp5(ts, pos) ==
    LET r == self("_ReadExp6", <<ts, pos>>)
    IN  IF ~r.ok THEN r ELSE self("_ReadExp5Rest", <<ts, r.pos, r.node>>)

\* Parser._ReadExp6
ReadExp6(ts, pos) ==
    LET tok == PeekTok(ts, pos)
    IN  IF PeekFails(ts, pos) THEN Wrap("expression", TokenException)
        ELSE IF tok.type = "EOF" THEN Wrap("expression", self("_ReadExp7", <<ts, pos>>))
        ELSE IF tok.type = "PLUS"
        THEN Wrap("expression", self("_ReadExp6", <<ts, pos + 1>>))
        ELSE IF tok.type = "MINUS"
        THEN LET r == self("_ReadExp6", <<ts, pos + 1>>)
             IN  IF ~r.ok THEN Wrap("expression", r)
                 ELSE Ok(Node1("ENegate", r.node), r.pos)
        ELSE IF IsKeyword(tok, "NOT")
        THEN LET r == self("_ReadExp6", <<ts, pos + 1>>)
             IN  IF ~r.ok THEN Wrap("expression", r)
                 ELSE Ok(Node1("ENot", r.node), r.pos)
        ELSE self("_ReadExp7", <<ts, pos>>)

\* Parser._ReadExp7 as it would be were the operand after ^ an [exp8]
ReadExp7Single(ts, pos) ==
    LET e == self("_ReadExp8", <<ts, pos>>)
    IN  IF ~e.ok THEN e
        ELSE IF PeekFails(ts, e.pos) THEN Wrap("expression", TokenException)
        ELSE IF PeekTok(ts, e.pos).type = "POWER"
        THEN LET r == self("_ReadExp8", <<ts, e.pos + 1>>)
             IN  IF ~r.ok THEN Wrap("expression", r)
                 ELSE Ok(Node2("EPower", e.node, r.node), r.pos)
        ELSE e

\* Parser._ReadExp7
ReadExp7(ts, pos) ==
    LET e == self("_ReadExp8", <<ts, pos>>)
    IN  IF ~e.ok THEN e
        ELSE IF PeekFails(ts, e.pos) THEN Wrap("expression", TokenException)
        ELSE IF PeekTok(ts, e.pos).type = "POWER"
        THEN LET r == self("_ReadExp7", <<ts, e.pos + 1>>)
             IN  IF ~r.ok THEN Wrap("expression", r)
                 ELSE Ok(Node2("EPower", e.node, r.node), r.pos)
        ELSE e

\* Parser._ReadExp8
ReadExp8(ts, pos) ==
    LET tok == PeekTok(ts, pos)
    IN  IF PeekFails(ts, pos) THEN Wrap("expression", TokenException)
        ELSE IF tok.type = "LPAREN"
        THEN LET e == self("_ReadExp", <<ts, pos + 1>>)
                 c == Require(ts, e.pos, "RPAREN")
             IN  IF ~e.ok THEN Wrap("expression", e)
                 ELSE IF ~c.ok THEN Wrap("expression", c)
                 ELSE Ok(Node1("EParen", e.node), c.pos)
        ELSE IF tok.type = "FUNCTION" THEN Wrap("expression", self("_ReadCall", <<ts, pos>>))
        ELSE IF IsFn(tok) THEN Wrap("expression", self("_ReadFunction", <<ts, pos>>))
        ELSE IF IsId(tok) THEN Wrap("expression", self("_ReadLValue", <<ts, pos>>))
        ELSE Wrap("expression", ReadLiteral(ts, pos))

\* Parser._ReadExpList: the loop over the commas, exps the list so far
ReadExpListRest(ts, pos, exps) ==
    IF PeekFails(ts, pos) THEN Wrap("expression list", TokenException)
    ELSE IF PeekTok(ts, pos).type = "COMMA"
    THEN LET r == self("_ReadExp", <<ts, pos + 1>>)
         IN  IF ~r.ok THEN Wrap("expression list", r)
             ELSE self("_ReadExpListRest", <<ts, r.pos, Append(exps, r.node)>>)
    ELSE Ok(NodeList(exps), pos)

ReadExpList(ts, pos, min_count, max_count) ==
    LET first == self("_ReadExp", <<ts, pos>>)
        r == IF ~first.ok THEN Wrap("expression list", first)
             ELSE self("_ReadExpListRest", <<ts, first.pos, <<first.node>>>>)
    IN  IF ~r.ok THEN r
        ELSE IF ~CountOk(min_count, max_count, Len(r.node.args))
        THEN Fail(<<"argument count">>)
        ELSE r

\* Parser._ReadCall: every known name returns from the branch that reads
\* its arguments, before the closing parenthesis is required
ReadCall(ts, pos) ==
    LET f == Require(ts, pos, "FUNCTION")
        name == f.node.text
        open == Require(ts, f.pos, "LPAREN")
        args == self("_ReadExpList", <<ts, open.pos, ArgCounts(name)[1],
                            ArgCounts(name)[2]>>)
    IN  IF ~f.ok THEN Wrap("function call", f)
        ELSE IF name = "RND" /\ PeekFails(ts, f.pos)
        THEN Wrap("function call", TokenException)
        ELSE IF name = "RND" /\ PeekTok(ts, f.pos).type # "LPAREN"
        THEN Ok(EFn("RND", <<>>), f.pos)
        ELSE IF name \in {"DATE$", "TIME$"} THEN Ok(EFn(name, <<>>), f.pos)
        ELSE IF ~open.ok THEN Wrap("function call", open)
        ELSE IF name \notin CallNames
        THEN Fail(<<"function call", "unknown function">>)
        ELSE IF ~args.ok THEN Wrap("function call", args)
        ELSE Ok(EFn(name, args.node.args), args.pos)

\* Parser._ReadFunction: it has no return statement
ReadFunction(ts, pos) ==
    LET name == RequireId(ts, pos)
        open == Require(ts, name.pos, "LPAREN")
        args == self("_ReadExpList", <<ts, open.pos, 0, 0>>)
        close == Require(ts, args.pos, "RPAREN")
    IN  IF ~name.ok THEN Wrap("function call", name)
        ELSE IF ~open.ok THEN Wrap("function call", open)
        ELSE IF ~args.ok THEN Wrap("function call", args)
        ELSE IF ~close.ok THEN Wrap("function call", close)
        ELSE Ok(None, close.pos)

\* Parser._ReadLValueArray
ReadLValueArray(ts, pos, tok) ==
    LET open == Require(ts, pos, "LPAREN")
        args == self("_ReadExpList", <<ts, open.pos, 0, 0>>)
        close == Require(ts, args.pos, "RPAREN")
    IN  IF ~open.ok THEN Wrap("array subscript", open)
        ELSE IF ~args.ok THEN Wrap("array subscript", args)
        ELSE IF ~close.ok THEN Wrap("array subscript", close)
        ELSE Ok(ELValueArray(tok, args.node.args), close.pos)

\* Parser._ReadLValue
ReadLValue(ts, pos) ==
    LET tok == RequireId(ts, pos)
    IN  IF ~tok.ok THEN Wrap("variable reference", tok)
        ELSE IF PeekFails(ts, tok.pos)
        THEN Wrap("variable reference", TokenException)
        ELSE IF PeekTok(ts, tok.pos).type = "LPAREN"
        THEN Wrap("variable reference", self("_ReadLValueArray", <<ts, tok.pos, tok.node>>))
        ELSE Ok(ELValue(tok.node), tok.pos)

(***************************************************************************)
(* The statement parsers.  A statement is a node as well; an argument that  *)
(* is not given is None.                                                    *)
(***************************************************************************)
\* sys.maxint, the open end of a line range
maxint == 2147483647

LineRange(start, end) == [k |-> "LineRange", n |-> start, m |-> end]

\* A statement that is its keyword alone: _ReadClear, _ReadCls, _ReadEnd,
\* _ReadFiles, _ReadFolders, _ReadNew, _ReadReturn, _ReadStop, _ReadTroff,
\* _ReadTron, _ReadWend
ReadKeywordOnly(ts, pos, keyword, k) ==
    LET w == RequireKeyword(ts, pos, keyword)
    IN  IF ~w.ok THEN Wrap(keyword, w) ELSE Ok(Node0(k), w.pos)

\* A statement that is its keyword and one expression: _ReadCursor,
\* _ReadFolder, _ReadGosub, _ReadGoto, _ReadLoad, _ReadPause,
\* _ReadRandomize, _ReadRemove, _ReadSave, _ReadWhile
ReadKeywordExp(ts, pos, keyword, k) ==
    LET w == RequireKeyword(ts, pos, keyword)
        e == self("_ReadExp", <<ts, w.pos>>)
    IN  IF ~w.ok THEN Wrap(keyword, w)
        ELSE IF ~e.ok THEN Wrap(keyword, e)
        ELSE Ok(Node1(k, e.node), e.pos)

\* A statement that is its keyword, an expression and an optional second
\* one after a comma: _ReadColor, _ReadWidth
ReadKeywordExpExp(ts, pos, keyword, k) ==
    LET w == RequireKeyword(ts, pos, keyword)
        e == self("_ReadExp", <<ts, w.pos>>)
        f == self("_ReadExp", <<ts, e.pos + 1>>)
    IN  IF ~w.ok THEN Wrap(keyword, w)
        ELSE IF ~e.ok THEN Wrap(keyword, e)
        ELSE IF PeekFails(ts, e.pos) THEN Wrap(keyword, TokenException)
        ELSE IF PeekTok(ts, e.pos).type = "COMMA"
        THEN IF ~f.ok THEN Wrap(keyword, f)
             ELSE Ok(Node2(k, e.node, f.node), f.pos)
        ELSE Ok(Node2(k, e.node, None), e.pos)

\* A statement that is its keyword and an optional expression:
\* _ReadRestore, _ReadRun
ReadKeywordOptExp(ts, pos, keyword, k) ==
    LET w == RequireKeyword(ts, pos, keyword)
        e == self("_ReadExp", <<ts, w.pos>>)
    IN  IF ~w.ok THEN Wrap(keyword, w)
        ELSE IF PeekFails(ts, w.pos) THEN Wrap(keyword, TokenException)
        ELSE IF AtTerminator(ts, w.pos) THEN Ok(Node1(k, None), w.pos)
        ELSE IF ~e.ok THEN Wrap(keyword, e)
        ELSE Ok(Node1(k, e.node), e.pos)

\* Parser._ReadComment
ReadComment(ts, pos) ==
    LET c == Require(ts, pos, "COMMENT")
    IN  IF ~c.ok THEN Wrap("comment", c)
        ELSE Ok([k |-> "SComment", text |-> c.node.text], c.pos)

\* Parser._ReadDataItem: a value; for a minus sign it calls itself with
\* the sign still the next token, until Python's recursion limit raises
\* the RuntimeError
ReadDataItem(ts, pos) ==
    LET tok == PeekTok(ts, pos)
    IN  IF PeekFails(ts, pos) THEN Wrap("DATA item", TokenException)
        ELSE IF tok.type = "INT" THEN Ok(VInt(tok.num), pos + 1)
        ELSE IF tok.type = "FLOAT" THEN Ok(VFloat(tok.num, tok.exp), pos + 1)
        ELSE IF tok.type \in {"ID_FLOAT", "KEYWORD", "FUNCTION", "STRING"}
        THEN Ok(VString(tok.text), pos + 1)
        ELSE IF tok.type = "MINUS" THEN Fail(<<"DATA item", "RuntimeError">>)
        ELSE Ok(VNull, pos)

\* Parser._ReadDataList: the loop over the commas
ReadDataListRest(ts, pos, value_list) ==
    IF PeekFails(ts, pos) THEN Wrap("DATA list", TokenException)
    ELSE IF PeekTok(ts, pos).type = "COMMA"
    THEN LET r == ReadDataItem(ts, pos + 1)
         IN  IF ~r.ok THEN Wrap("DATA list", r)
             ELSE self("_ReadDataListRest", <<ts, r.pos, Append(value_list, r.node)>>)
    ELSE Ok([k |-> "values", vals |-> value_list], pos)

ReadDataList(ts, pos) ==
    LET r == ReadDataItem(ts, pos)
    IN  IF ~r.ok THEN Wrap("DATA list", r)
        ELSE self("_ReadDataListRest", <<ts, r.pos, <<r.node>>>>)

\* Parser._ReadData
ReadData(ts, pos) ==
    LET w == RequireKeyword(ts, pos, "DATA")
        l == ReadDataList(ts, w.pos)
    IN  IF ~w.ok THEN Wrap("DATA", w)
        ELSE IF ~l.ok THEN Wrap("DATA", l)
        ELSE Ok([k |-> "SData", vals |-> l.node.vals], l.pos)

\* Parser._ReadIdList: the loop over the commas
ReadIdListRest(ts, pos, ids) ==
    IF PeekFails(ts, pos) THEN Wrap("variable list", TokenException)
    ELSE IF PeekTok(ts, pos).type = "COMMA"
    THEN LET r == RequireId(ts, pos + 1)
         IN  IF ~r.ok THEN Wrap("variable list", r)
             ELSE self("_ReadIdListRest", <<ts, r.pos, Append(ids, ELValue(r.node))>>)
    ELSE Ok(NodeList(ids), pos)

ReadIdList(ts, pos) ==
    LET r == RequireId(ts, pos)
    IN  IF ~r.ok THEN Wrap("variable list", r)
        ELSE self("_ReadIdListRest", <<ts, r.pos, <<ELValue(r.node)>>>>)

\* Parser._ReadDefFn
ReadDefFn(ts, pos) ==
    LET w == RequireKeyword(ts, pos, "DEF")
        name == RequireId(ts, w.pos)
        open == Require(ts, name.pos, "LPAREN")
        formals == ReadIdList(ts, open.pos)
        close == Require(ts, formals.pos, "RPAREN")
        eq == Require(ts, close.pos, "EQUAL")
        e == self("_ReadExp", <<ts, eq.pos>>)
    IN  IF ~w.ok THEN Wrap("DEF FN", w)
        ELSE IF ~name.ok THEN Wrap("DEF FN", name)
        ELSE IF ~IsFn(name.node) THEN Fail(<<"DEF FN", "DEF FN">>)
        ELSE IF ~open.ok THEN Wrap("DEF FN", open)
        ELSE IF ~formals.ok THEN Wrap("DEF FN", formals)
        ELSE IF ~close.ok THEN Wrap("DEF FN", close)
        ELSE IF ~eq.ok THEN Wrap("DEF FN", eq)
        ELSE IF ~e.ok THEN Wrap("DEF FN", e)
        ELSE Ok([k |-> "SDefFn", text |-> name.node.text,
                 args |-> formals.node.args, a |-> e.node], e.pos)

\* Parser._ReadRange
ReadRange(ts, pos) ==
    LET tok == PeekTok(ts, pos)
        start == IF tok.type = "INT" THEN tok.num ELSE 0
        \* the position of the minus sign, when there is one
        dash == IF tok.type = "INT" THEN pos + 1 ELSE pos
    IN  IF PeekFails(ts, pos) THEN Wrap("line range", TokenException)
        ELSE IF tok.type \notin {"INT", "MINUS"}
        THEN Ok(LineRange(0, maxint), pos)
        ELSE IF PeekFails(ts, dash) THEN Wrap("line range", TokenException)
        ELSE IF PeekTok(ts, dash).type # "MINUS"
        THEN Ok(LineRange(start, start), dash)
        ELSE IF PeekFails(ts, dash + 1)
        THEN Wrap("line range", TokenException)
        ELSE IF PeekTok(ts, dash + 1).type = "INT"
        THEN Ok(LineRange(start, PeekTok(ts, dash + 1).num), dash + 2)
        ELSE Ok(LineRange(start, maxint), dash + 1)

\* Parser._ReadDelete
ReadDelete(ts, pos) ==
    LET w == RequireKeyword(ts, pos, "DELETE")
        r == ReadRange(ts, w.pos)
    IN  IF ~w.ok THEN Wrap("DELETE", w)
        ELSE IF ~r.ok THEN Wrap("DELETE", r)
        ELSE Ok(Node1("SDelete", r.node), r.pos)

\* Parser._ReadList
ReadList(ts, pos) ==
    LET w == RequireKeyword(ts, pos, "LIST")
        r == ReadRange(ts, w.pos)
    IN  IF ~w.ok THEN Wrap("LIST", w)
        ELSE IF ~r.ok THEN Wrap("LIST", r)
        ELSE Ok(Node1("SList", r.node), r.pos)

\* Parser._ReadLValueArrayList: the loop over the commas
ReadLValueArrayListRest(ts, pos, list) ==
    IF PeekFails(ts, pos) THEN Wrap("array list", TokenException)
    ELSE IF PeekTok(ts, pos).type = "COMMA"
    THEN LET id == RequireId(ts, pos + 1)
             r == self("_ReadLValueArray", <<ts, id.pos, id.node>>)
         IN  IF ~id.ok THEN Wrap("array list", id)
             ELSE IF ~r.ok THEN Wrap("array list", r)
             ELSE self("_ReadLValueArrayListRest", <<ts, r.pos, Append(list, r.node)>>)
    ELSE Ok(NodeList(list), pos)

ReadLValueArrayList(ts, pos) ==
    LET id == RequireId(ts, pos)
        r == self("_ReadLValueArray", <<ts, id.pos, id.node>>)
    IN  IF ~id.ok THEN Wrap("array list", id)
        ELSE IF ~r.ok THEN Wrap("array list", r)
        ELSE self("_ReadLValueArrayListRest", <<ts, r.pos, <<r.node>>>>)

\* Parser._ReadDim
ReadDim(ts, pos) ==
    LET w == RequireKeyword(ts, pos, "DIM")
        l == ReadLValueArrayList(ts, w.pos)
    IN  IF ~w.ok THEN Wrap("DIM", w)
        ELSE IF ~l.ok THEN Wrap("DIM", l)
        ELSE Ok([k |-> "SDim", args |-> l.node.args], l.pos)

\* Parser._ReadLValueList: the loop over the commas
ReadLValueListRest(ts, pos, vals) ==
    IF PeekFails(ts, pos) THEN Wrap("variable list", TokenException)
    ELSE IF PeekTok(ts, pos).type = "COMMA"
    THEN LET r == self("_ReadLValue", <<ts, pos + 1>>)
         IN  IF ~r.ok THEN Wrap("variable list", r)
             ELSE self("_ReadLValueListRest", <<ts, r.pos, Append(vals, r.node)>>)
    ELSE Ok(NodeList(vals), pos)

ReadLValueList(ts, pos) ==
    LET r == self("_ReadLValue", <<ts, pos>>)
    IN  IF ~r.ok THEN Wrap("variable list", r)
        ELSE self("_ReadLValueListRest", <<ts, r.pos, <<r.node>>>>)

\* ELValue.IsNumeric: by the sigil of the name
LValueIsNumeric(var) == var.type \in {"ID_INT", "ID_FLOAT"}

\* statement.SFor as it would be built with the start and the end exchanged
SForEndFirst(var, exp_start, exp_end, exp_step) ==
    [k |-> "SFor", a |-> var, b |-> exp_end, c |-> exp_start,
     d |-> exp_step]

SFor(var, exp_start, exp_end, exp_step) ==
    [k |-> "SFor", a |-> var, b |-> exp_start, c |-> exp_end,
     d |-> exp_step]

\* Parser._ReadFor
ReadFor(ts, pos) ==
    LET w == RequireKeyword(ts, pos, "FOR")
        var == self("_ReadLValue", <<ts, w.pos>>)
        eq == Require(ts, var.pos, "EQUAL")
        exp_start == self("_ReadExp", <<ts, eq.pos>>)
        to == RequireKeyword(ts, exp_start.pos, "TO")
        exp_end == self("_ReadExp", <<ts, to.pos>>)
        exp_step == self("_ReadExp", <<ts, exp_end.pos + 1>>)
    IN  IF ~w.ok THEN Wrap("FOR", w)
        ELSE IF ~var.ok THEN Wrap("FOR", var)
        ELSE IF ~LValueIsNumeric(var.node)
        THEN Fail(<<"FOR", "FOR variable">>)
        ELSE IF ~eq.ok THEN Wrap("FOR", eq)
        ELSE IF ~exp_start.ok THEN Wrap("FOR", exp_start)
        ELSE IF ~to.ok THEN Wrap("FOR", to)
        ELSE IF ~exp_end.ok THEN Wrap("FOR", exp_end)
        ELSE IF PeekFails(ts, exp_end.pos) THEN Wrap("FOR", TokenException)
        ELSE IF IsKeyword(PeekTok(ts, exp_end.pos), "STEP")
        THEN IF ~exp_step.ok THEN Wrap("FOR", exp_step)
             ELSE Ok(SFor(var.node, exp_start.node, exp_end.node,
                          exp_step.node), exp_step.pos)
        ELSE Ok(SFor(var.node, exp_start.node, exp_end.node, None),
                exp_end.pos)

\* Parser._ReadGet
ReadGet(ts, pos) ==
    LET w == RequireKeyword(ts, pos, "GET")
        v == self("_ReadLValue", <<ts, w.pos>>)
    IN  IF ~w.ok THEN Wrap("GET", w)
        ELSE IF ~v.ok THEN Wrap("GET", v)
        ELSE Ok(Node1("SGet", v.node), v.pos)

\* Parser._ReadGosub as it would be with the class of _ReadGoto
ReadGosubAsGoto(ts, pos) == ReadKeywordExp(ts, pos, "GOSUB", "SGoto")

ReadGosub(ts, pos) == ReadKeywordExp(ts, pos, "GOSUB", "SGosub")

ReadGoto(ts, pos) == ReadKeywordExp(ts, pos, "GOTO", "SGoto")

\* Parser._ReadInput
ReadInput(ts, pos) ==
    LET w == RequireKeyword(ts, pos, "INPUT")
        prompt == PeekTok(ts, w.pos)
        semi == Require(ts, w.pos + 1, "SEMICOLON")
        l == ReadLValueList(ts, IF prompt.type = "STRING" THEN semi.pos
                                ELSE w.pos)
    IN  IF ~w.ok THEN Wrap("INPUT", w)
        ELSE IF PeekFails(ts, w.pos) THEN Wrap("INPUT", TokenException)
        ELSE IF prompt.type = "STRING" /\ ~semi.ok THEN Wrap("INPUT", semi)
        ELSE IF ~l.ok THEN Wrap("INPUT", l)
        ELSE Ok([k |-> "SInput", args |-> l.node.args,
                 text |-> IF prompt.type = "STRING" THEN prompt.text ELSE ""],
                l.pos)

\* Parser._ReadAssign
ReadAssign(ts, pos) ==
    LET var == self("_ReadLValue", <<ts, pos>>)
        eq == Require(ts, var.pos, "EQUAL")
        e == self("_ReadExp", <<ts, eq.pos>>)
    IN  IF ~var.ok THEN Wrap("assignment", var)
        ELSE IF ~eq.ok THEN Wrap("assignment", eq)
        ELSE IF ~e.ok THEN Wrap("assignment", e)
        ELSE Ok(Node2("SAssignment", var.node, e.node), e.pos)

\* Parser._ReadLet
ReadLet(ts, pos) ==
    LET w == RequireKeyword(ts, pos, "LET")
    IN  IF ~w.ok THEN Wrap("LET", w)
        ELSE Wrap("LET", ReadAssign(ts, w.pos))

\* Parser._ReadLocate
ReadLocate(ts, pos) ==
    LET w == RequireKeyword(ts, pos, "LOCATE")
        row_exp == self("_ReadExp", <<ts, w.pos>>)
        comma == Require(ts, row_exp.pos, "COMMA")
        column_exp == self("_ReadExp", <<ts, comma.pos>>)
    IN  IF ~w.ok THEN Wrap("LOCATE", w)
        ELSE IF ~row_exp.ok THEN Wrap("LOCATE", row_exp)
        ELSE IF ~comma.ok THEN Wrap("LOCATE", comma)
        ELSE IF ~column_exp.ok THEN Wrap("LOCATE", column_exp)
        ELSE Ok(Node2("SLocate", row_exp.node, column_exp.node),
                column_exp.pos)

\* Parser._ReadNext
ReadNext(ts, pos) ==
    LET w == RequireKeyword(ts, pos, "NEXT")
        v == self("_ReadLValue", <<ts, w.pos>>)
    IN  IF ~w.ok THEN Wrap("NEXT", w)
        ELSE IF PeekFails(ts, w.pos) THEN Wrap("NEXT", TokenException)
        ELSE IF IsId(PeekTok(ts, w.pos))
        THEN IF ~v.ok THEN Wrap("NEXT", v)
             ELSE Ok(Node1("SNext", v.node), v.pos)
        ELSE Ok(Node1("SNext", None), w.pos)

\* statement.SOnGosub as it would be built were it statement.SOnGoto
SOnAsGoto(k, index_exp, list) ==
    [k |-> "SOnGoto", a |-> index_exp, args |-> list]

SOn(k, index_exp, list) == [k |-> k, a |-> index_exp, args |-> list]

\* Parser._ReadOn
ReadOn(ts, pos) ==
    LET w == RequireKeyword(ts, pos, "ON")
        index_exp == self("_ReadExp", <<ts, w.pos>>)
        tok == PeekTok(ts, index_exp.pos)
        l == self("_ReadExpList", <<ts, index_exp.pos + 1, 0, 0>>)
    IN  IF ~w.ok THEN Wrap("ON", w)
        ELSE IF ~index_exp.ok THEN Wrap("ON", index_exp)
        ELSE IF PeekFails(ts, index_exp.pos) THEN Wrap("ON", TokenException)
        ELSE IF IsKeyword(tok, "GOTO") \/ IsKeyword(tok, "GOSUB")
        THEN IF ~l.ok THEN Wrap("ON", l)
             ELSE Ok(SOn(IF IsKeyword(tok, "GOTO") THEN "SOnGoto"
                         ELSE "SOnGosub", index_exp.node, l.node.args), l.pos)
        ELSE Fail(<<"ON", "ON">>)

\* Parser._ReadPrint: the keyword is read and nothing is returned
ReadPrint(ts, pos) ==
    LET w == RequireKeyword(ts, pos, "PRINT")
    IN  IF ~w.ok THEN Wrap("PRINT", w) ELSE Ok(None, w.pos)

\* Parser._ReadRead as it would be with the variables in reverse order
ReadReadBackwards(ts, pos) ==
    LET w == RequireKeyword(ts, pos, "READ")
        l == ReadLValueList(ts, w.pos)
    IN  IF ~w.ok THEN Wrap("READ", w)
        ELSE IF ~l.ok THEN Wrap("READ", l)
        ELSE Ok([k |-> "SRead",
                 args |-> [i \in 1..Len(l.node.args) |->
                              l.node.args[Len(l.node.args) + 1 - i]]],
                l.pos)

\* Parser._ReadRead
ReadRead(ts, pos) ==
    LET w == RequireKeyword(ts, pos, "READ")
        l == ReadLValueList(ts, w.pos)
    IN  IF ~w.ok THEN Wrap("READ", w)
        ELSE IF ~l.ok THEN Wrap("READ", l)
        ELSE Ok([k |-> "SRead", args |-> l.node.args], l.pos)

SRenum(ran, start, inc) ==
    [k |-> "SRenum", a |-> ran, n |-> start, m |-> inc]

\* Parser._ReadRenum; an increment that is not given is -1
ReadRenum(ts, pos) ==
    LET w == RequireKeyword(ts, pos, "RENUM")
        ran == ReadRange(ts, w.pos)
        to == RequireKeyword(ts, ran.pos, "TO")
        start == Require(ts, to.pos, "INT")
        inc == Require(ts, start.pos + 1, "INT")
    IN  IF ~w.ok THEN Wrap("RENUM", w)
        ELSE IF ~ran.ok THEN Wrap("RENUM", ran)
        ELSE IF ~to.ok THEN Wrap("RENUM", to)
        ELSE IF ~start.ok THEN Wrap("RENUM", start)
        ELSE IF PeekFails(ts, start.pos) THEN Wrap("RENUM", TokenException)
        ELSE IF PeekTok(ts, start.pos).type = "COMMA"
        THEN IF ~inc.ok THEN Wrap("RENUM", inc)
             ELSE Ok(SRenum(ran.node, start.node.n, inc.node.n), inc.pos)
        ELSE Ok(SRenum(ran.node, start.node.n, 0 - 1), start.pos)

ReadRestore(ts, pos) == ReadKeywordOptExp(ts, pos, "RESTORE", "SRestore")

ReadReturn(ts, pos) == ReadKeywordOnly(ts, pos, "RETURN", "SReturn")

StatementSet(ls) == [k |-> "StatementSet", args |-> ls]


\* Parser._ReadThenCase
ReadThenCase(ts, pos) ==
    LET n == ReadInt(ts, pos)
    IN  IF PeekFails(ts, pos) THEN Wrap("THEN/ELSE", TokenException)
        ELSE IF PeekTok(ts, pos).type = "INT"
        THEN IF ~n.ok THEN Wrap("THEN/ELSE", n)
             ELSE Ok(StatementSet(<<Node1("SGoto", n.node)>>), n.pos)
        ELSE Wrap("THEN/ELSE", self("_ReadStatementList", <<ts, pos>>))

\* Parser._ReadIf
ReadIf(ts, pos) ==
    LET w == RequireKeyword(ts, pos, "IF")
        test_exp == self("_ReadExp", <<ts, w.pos>>)
        then == RequireKeyword(ts, test_exp.pos, "THEN")
        then_case == self("_ReadThenCase", <<ts, then.pos>>)
        else_case == self("_ReadThenCase", <<ts, then_case.pos + 1>>)
    IN  IF ~w.ok THEN Wrap("IF", w)
        ELSE IF ~test_exp.ok THEN Wrap("IF", test_exp)
        ELSE IF ~then.ok THEN Wrap("IF", then)
        ELSE IF ~then_case.ok THEN Wrap("IF", then_case)
        ELSE IF PeekFails(ts, then_case.pos) THEN Wrap("IF", TokenException)
        ELSE IF IsKeyword(PeekTok(ts, then_case.pos), "ELSE")
        THEN IF ~else_case.ok THEN Wrap("IF", else_case)
             ELSE Ok(Node3("SIf", test_exp.node, then_case.node,
                           else_case.node), else_case.pos)
        ELSE Ok(Node3("SIf", test_exp.node, then_case.node, None),
                then_case.pos)

\* The sub-parser _ReadStatement selects for a keyword
ReadKeyword(ts, pos, keyword) ==
    CASE keyword = "CLEAR" -> ReadKeywordOnly(ts, pos, "CLEAR", "SClear")
      [] keyword = "CLS" -> ReadKeywordOnly(ts, pos, "CLS", "SCls")
      [] keyword = "COLOR" -> ReadKeywordExpExp(ts, pos, "COLOR", "SColor")
      [] keyword = "CURSOR" -> ReadKeywordExp(ts, pos, "CURSOR", "SCursor")
      [] keyword = "DATA" -> ReadData(ts, pos)
      [] keyword = "DEF" -> ReadDefFn(ts, pos)
      [] keyword = "DELETE" -> ReadDelete(ts, pos)
      [] keyword = "DIM" -> ReadDim(ts, pos)
      [] keyword = "END" -> ReadKeywordOnly(ts, pos, "END", "SEnd")
      [] keyword = "FILES" -> ReadKeywordOnly(ts, pos, "FILES", "SFiles")
      [] keyword = "FOLDER" -> ReadKeywordExp(ts, pos, "FOLDER", "SFolder")
      [] keyword = "FOLDERS" ->
            ReadKeywordOnly(ts, pos, "FOLDERS", "SFolders")
      [] keyword = "FOR" -> ReadFor(ts, pos)
      [] keyword = "GET" -> ReadGet(ts, pos)
      [] keyword = "GOSUB" -> ReadGosub(ts, pos)
      [] keyword = "GOTO" -> ReadGoto(ts, pos)
      [] keyword = "IF" -> self("_ReadIf", <<ts, pos>>)
      [] keyword = "INPUT" -> ReadInput(ts, pos)
      [] keyword = "LET" -> ReadLet(ts, pos)
      [] keyword = "LIST" -> ReadList(ts, pos)
      [] keyword = "LOAD" -> ReadKeywordExp(ts, pos, "LOAD", "SLoad")
      [] keyword = "LOCATE" -> ReadLocate(ts, pos)
      [] keyword = "NEW" -> ReadKeywordOnly(ts, pos, "NEW", "SNew")
      [] keyword = "NEXT" -> ReadNext(ts, pos)
      [] keyword = "ON" -> ReadOn(ts, pos)
      [] keyword = "PAUSE" -> ReadKeywordExp(ts, pos, "PAUSE", "SPause")
      [] keyword = "PRINT" -> ReadPrint(ts, pos)
      [] keyword = "RANDOMIZE" ->
            ReadKeywordExp(ts, pos, "RANDOMIZE", "SRandomize")
      [] keyword = "READ" -> ReadRead(ts, pos)
      [] keyword = "REMOVE" -> ReadKeywordExp(ts, pos, "REMOVE", "SRemove")
      [] keyword = "RENUM" -> ReadRenum(ts, pos)
      [] keyword = "RESTORE" -> ReadRestore(ts, pos)
      [] keyword = "RETURN" -> ReadReturn(ts, pos)
      [] keyword = "RUN" -> ReadKeywordOptExp(ts, pos, "RUN", "SRun")
      [] keyword = "SAVE" -> ReadKeywordExp(ts, pos, "SAVE", "SSave")
      [] keyword = "STOP" -> ReadKeywordOnly(ts, pos, "STOP", "SStop")
      [] keyword = "TROFF" -> ReadKeywordOnly(ts, pos, "TROFF", "STroff")
      [] keyword = "TRON" -> ReadKeywordOnly(ts, pos, "TRON", "STron")
      [] keyword = "WEND" -> ReadKeywordOnly(ts, pos, "WEND", "SWend")
      [] keyword = "WHILE" -> ReadKeywordExp(ts, pos, "WHILE", "SWhile")
      [] keyword = "WIDTH" -> ReadKeywordExpExp(ts, pos, "WIDTH", "SWidth")
      [] OTHER -> Fail(<<"unknown statement">>)

\* Parser._ReadStatement
ReadStatement(ts, pos) ==
    LET tok == PeekTok(ts, pos)
    IN  IF PeekFails(ts, pos) THEN Wrap("statement", TokenException)
        ELSE IF tok.type = "EOF" THEN Ok(Node0("SNull"), pos)
        ELSE IF tok.type = "COMMENT"
        THEN Wrap("statement", ReadComment(ts, pos))
        ELSE IF tok.type = "KEYWORD"
        THEN Wrap("statement", ReadKeyword(ts, pos, tok.text))
        ELSE IF IsId(tok) THEN Wrap("statement", ReadAssign(ts, pos))
        ELSE Fail(<<"statement", "unknown statement">>)

\* Parser._ReadStatementList: the loop, ls the statements read so far
ReadStatementListRest(ts, pos, ls) ==
    LET s == self("_ReadStatement", <<ts, pos>>)
    IN  IF ~s.ok THEN Wrap("compound statement", s)
        ELSE IF PeekFails(ts, s.pos)
        THEN Wrap("compound statement", TokenException)
        ELSE IF PeekTok(ts, s.pos).type # "COLON"
        THEN Ok(StatementSet(Append(ls, s.node)), s.pos)
        ELSE self("_ReadStatementListRest", <<ts, s.pos + 1, Append(ls, s.node)>>)

ReadStatementList(ts, pos) == self("_ReadStatementListRest", <<ts, pos, <<>>>>)

self(method, args) ==
    CASE method = "_ReadExp" -> ReadExp(args[1], args[2])
      [] method = "_ReadExp0Rest" -> ReadExp0Rest(args[1], args[2], args[3])
      [] method = "_ReadExp0" -> ReadExp0(args[1], args[2])
      [] method = "_ReadExp1Rest" -> ReadExp1Rest(args[1], args[2], args[3])
      [] method = "_ReadExp1" -> ReadExp1(args[1], args[2])
      [] method = "_ReadExp2Rest" -> ReadExp2Rest(args[1], args[2], args[3])
      [] method = "_ReadExp2" -> ReadExp2(args[1], args[2])
      [] method = "_ReadExp3Rest" -> ReadExp3Rest(args[1], args[2], args[3])
      [] method = "_ReadExp3" -> ReadExp3(args[1], args[2])
      [] method = "_ReadExp4Rest" -> ReadExp4Rest(args[1], args[2], args[3])
      [] method = "_ReadExp4" -> ReadExp4(args[1], args[2])
      [] method = "_ReadExp5Rest" -> ReadExp5Rest(args[1], args[2], args[3])
      [] method = "_ReadExp5" -> ReadExp5(args[1], args[2])
      [] method = "_ReadExp6" -> ReadExp6(args[1], args[2])
      [] method = "_ReadExp7" -> ReadExp7(args[1], args[2])
      [] method = "_ReadExp8" -> ReadExp8(args[1], args[2])
      [] method = "_ReadExpListRest" -> ReadExpListRest(args[1], args[2], args[3])
      [] method = "_ReadExpList" -> ReadExpList(args[1], args[2], args[3], args[4])
      [] method = "_ReadCall" -> ReadCall(args[1], args[2])
      [] method = "_ReadFunction" -> ReadFunction(args[1], args[2])
      [] method = "_ReadLValueArray" -> ReadLValueArray(args[1], args[2], args[3])
      [] method = "_ReadLValue" -> ReadLValue(args[1], args[2])
      [] method = "_ReadDataListRest" -> ReadDataListRest(args[1], args[2], args[3])
      [] method = "_ReadIdListRest" -> ReadIdListRest(args[1], args[2], args[3])
      [] method = "_ReadLValueArrayListRest" -> ReadLValueArrayListRest(args[1], args[2], args[3])
      [] method = "_ReadLValueListRest" -> ReadLValueListRest(args[1], args[2], args[3])
      [] method = "_ReadThenCase" -> ReadThenCase(args[1], args[2])
      [] method = "_ReadIf" -> ReadIf(args[1], args[2])
      [] method = "_ReadStatement" -> ReadStatement(args[1], args[2])
      [] method = "_ReadStatementListRest" -> ReadStatementListRest(args[1], args[2], args[3])
      [] method = "_ReadStatementList" -> ReadStatementList(args[1], args[2])

(***************************************************************************)
(* The Program store (section 4.5 of the specification; its class is not    *)
(* among the sources): the lines in line order, each with its statement     *)
(* set.                                                                     *)
(***************************************************************************)
ProgramLine(line, set) == [line |-> line, set |-> set]

\* Program.Add: insert or replace
ProgramAdd(prog, line, set) ==
    LET Before(l) == l.line < line
        After(l) == l.line > line
    IN  SelectSeq(prog, Before) \o <<ProgramLine(line, set)>>
        \o SelectSeq(prog, After)

(***************************************************************************)
(* Parser.Read and _ReadCommand.  The outcome of a call is what it returns  *)
(* or raises, the exception it caught and kept to itself, and the Program   *)
(* after it.                                                                *)
(***************************************************************************)
ReadOutcome(kind, node, err, caught, prog) ==
    [kind |-> kind, node |-> node, err |-> err, caught |-> caught,
     program |-> prog]

\* The inner try of _ReadCommand as it would be if the line were added
\* whether or not its statements were read
ReadCommandAddsFirst(prog, line_number, statement_set) ==
    ReadOutcome("None", None, <<>>, statement_set.err,
                ProgramAdd(prog, line_number, statement_set.node))

\* The inner try of _ReadCommand, statement_set being what
\* _ReadStatementList returned or raised: the line is added when the list
\* was read, and an exception is caught, given its line (AtLine) and
\* dropped; None is returned in both cases (name: system.State.program
\* has no import)
ReadCommandAdd(prog, line_number, statement_set) ==
    IF statement_set.ok
    THEN ReadOutcome("None", None, <<>>, <<>>,
                     ProgramAdd(prog, line_number, statement_set.node))
    ELSE ReadOutcome("None", None, <<>>, statement_set.err, prog)

\* The else branch of _ReadCommand: the statement list is returned, an
\* exception is wrapped by the outer handler
ReadCommandReturn(prog, statement_set) ==
    IF statement_set.ok
    THEN ReadOutcome("StatementSet", statement_set.node, <<>>, <<>>, prog)
    ELSE ReadOutcome("ParserException", None,
                     <<"line number">> \o statement_set.err, <<>>, prog)

\* Parser._ReadCommand on the line of tokens ts with the Program prog
\* (name: the local `token` is read as the token peeked, its TYPE_INT as
\* the module's)
ReadCommand(ts, prog) ==
    IF PeekFails(ts, 0)
    THEN ReadOutcome("ParserException", None,
                     <<"line number", "TokenException">>, <<>>, prog)
    ELSE IF PeekTok(ts, 0).type = "INT"
    THEN ReadCommandAdd(prog, PeekTok(ts, 0).num, ReadStatementList(ts, 1))
    ELSE ReadCommandReturn(prog, ReadStatementList(ts, 0))

\* The tokens of the lines typed at the prompt
LineTokens ==
    {TKey("CLS"), TKey("GOTO"), T("COLON"), LEXERR}

LineNumbers == {10, 20}

InputLines ==
    LET bodies == SeqsOfUpTo(LineTokens, MaxLineLen)
    IN  bodies \cup { <<TInt(n)>> \o b : n \in LineNumbers, b \in bodies }

InitParse ==
    /\ program = <<>>
    /\ parseOut = NoRead
    /\ LexIdle
    /\ EvalIdle
    /\ RunIdle
    /\ ReadIdle
    /\ EnvIdle

\* The state after a call of Parser.Read with the outcome r
ReadDone(r) ==
    /\ program' = r.program
    /\ parseOut' = [kind |-> r.kind, node |-> r.node, err |-> r.err,
                    caught |-> r.caught]
    /\ UNCHANGED notParse

\* Parser.Read on one line
Read(ts) == ReadDone(ReadCommand(ts, program))

NextParse == \E ts \in InputLines : Read(ts)

SpecParse == InitParse /\ [][NextParse]_vars

(***************************************************************************)
(* The execution engine (section 4.6 of the specification).  The classes   *)
(* that execute statements are not among the sources, which hold the       *)
(* parser that builds the statements, Runtime, Environment and the values: *)
(* the engine is modelled from the specification.  A statement is          *)
(* addressed by its line and its offset within the line, from 0; an        *)
(* address past the last statement of a line stands for the first          *)
(* statement of the next line, and line 0 for the end of the program.      *)
(***************************************************************************)
\* Deepest return stack and deepest loop stack of a run
MaxDepth == 2

\* Program.First and Program.NextAfter, 0 where there is no such line
LinesAfter(prog, line) ==
    { prog[i].line : i \in { j \in 1..Len(prog) : prog[j].line > line } }

NextAfter(prog, line) ==
    IF LinesAfter(prog, line) = {} THEN 0
    ELSE CHOOSE l \in LinesAfter(prog, line) :
            \A m \in LinesAfter(prog, line) : l <= m

First(prog) == NextAfter(prog, 0)

HasLine(prog, line) == \E i \in 1..Len(prog) : prog[i].line = line

\* The statements of a line of the Program
SetOf(prog, line) ==
    prog[CHOOSE i \in 1..Len(prog) : prog[i].line = line].set.args

\* The address of the statement that is run when the pointer is p
At(prog, p) ==
    IF ~HasLine(prog, p.line) THEN Address(0, 0)
    ELSE IF p.offset < Len(SetOf(prog, p.line)) THEN p
    ELSE Address(NextAfter(prog, p.line), 0)

StatementAt(prog, p) == SetOf(prog, p.line)[p.offset + 1]

\* The continuation immediately after the statement at p
After(p) == Address(p.line, p.offset + 1)

\* Environment.Get (None for a variable that is not set) and Environment.Set
EnvGet(env, id) == IF id \in DOMAIN env THEN env[id] ELSE None

EnvSet(env, id, value) ==
    [x \in (DOMAIN env) \cup {id} |-> IF x = id THEN value ELSE env[x]]

\* The value a variable of the kind of lvalue takes from a numeric value
Coerce(lvalue, value) ==
    IF lvalue.type = "ID_INT" THEN VInt(AsInt(value))
    ELSE IF lvalue.type = "ID_FLOAT"
    THEN VFloat(AsFloat(value).m, AsFloat(value).e)
    ELSE VString(AsString(value))

\* Expression.Evaluate for the expressions the sample programs hold: an
\* integer literal, a scalar variable, a sum and a negation; Evaluate of
\* the base class for the others
RECURSIVE Evaluate(_, _)
Evaluate(exp, env) ==
    CASE exp.k = "EInt" -> Returned(VInt(exp.n))
      [] exp.k = "ELValue" ->
            IF exp.text \in DOMAIN env THEN Returned(EnvGet(env, exp.text))
            ELSE EvalException("ERR_BADVAR")
      [] exp.k = "EAdd" ->
            IF Evaluate(exp.a, env).kind # "value" THEN Evaluate(exp.a, env)
            ELSE IF Evaluate(exp.b, env).kind # "value"
            THEN Evaluate(exp.b, env)
            ELSE EAddEvaluate(Evaluate(exp.a, env).val,
                              Evaluate(exp.b, env).val)
      [] exp.k = "ENegate" ->
            IF Evaluate(exp.a, env).kind # "value" THEN Evaluate(exp.a, env)
            ELSE IF ~ValIsNumeric(Evaluate(exp.a, env).val)
            THEN EvalException("ERR_TYPE")
            ELSE Returned(VInt(0 - AsInt(Evaluate(exp.a, env).val)))
      [] OTHER -> EvalException("ERR_INTERNAL")

\* A failure of a statement: the active line is attached and the run halts
Halt(r, kind, line) ==
    [r EXCEPT !.state = "Ended",
              !.failure = [kind |-> kind, line |-> line]]

\* The pointer is set to the start of a line; a missing line is an error
Jump(prog, r, line, active) ==
    IF HasLine(prog, line) THEN [r EXCEPT !.pointer = Address(line, 0)]
    ELSE Halt(r, "UndefinedLine", active)

\* GOTO: the pointer is set to the start of the target line
ExecGoto(prog, r, p, s) ==
    IF Evaluate(s.a, r.env).kind # "value"
    THEN Halt(r, Evaluate(s.a, r.env).code, p.line)
    ELSE Jump(prog, r, AsInt(Evaluate(s.a, r.env).val), p.line)

\* GOSUB: the continuation after the call is pushed, then the jump
ExecGosub(prog, r, p, s) ==
    ExecGoto(prog, [r EXCEPT !.returns = <<After(p)>> \o @], p, s)

\* RETURN: the run resumes at the continuation popped
ExecReturn(r, p) ==
    IF r.returns = <<>> THEN Halt(r, "StackUnderflow", p.line)
    ELSE [r EXCEPT !.pointer = Head(r.returns), !.returns = Tail(@)]

\* A loop variable with the value v has passed the limit, by the sign of
\* the step
Past(v, limit, step) == IF step >= 0 THEN v > limit ELSE v < limit

\* The address just after the NEXT that matches a FOR, p being the address
\* from which it is looked for and depth the loops opened on the way
RECURSIVE AfterMatchingNext(_, _, _)
AfterMatchingNext(prog, p, depth) ==
    IF At(prog, p).line = 0 THEN At(prog, p)
    ELSE IF StatementAt(prog, At(prog, p)).k = "SFor"
    THEN AfterMatchingNext(prog, After(At(prog, p)), depth + 1)
    ELSE IF StatementAt(prog, At(prog, p)).k # "SNext"
    THEN AfterMatchingNext(prog, After(At(prog, p)), depth)
    ELSE IF depth = 0 THEN After(At(prog, p))
    ELSE AfterMatchingNext(prog, After(At(prog, p)), depth - 1)

\* FOR with its start, limit and step evaluated: the start is assigned;
\* the body is skipped when the start has passed the limit, and a frame is
\* pushed otherwise.  A frame holds the variable, the limit, the step and
\* the address of the body, and for the record the start and the values
\* the body has been run with
ExecLoop(prog, r, p, var, start, limit, step) ==
    IF Past(start, limit, step)
    THEN [r EXCEPT !.env = EnvSet(@, var.text, Coerce(var, VInt(start))),
                   !.pointer = AfterMatchingNext(prog, After(p), 0)]
    ELSE [r EXCEPT !.env = EnvSet(@, var.text, Coerce(var, VInt(start))),
                   !.pointer = After(p),
                   !.loops = <<[var |-> var.text, limit |-> limit,
                                step |-> step, body |-> After(p),
                                start |-> start, seen |-> <<start>>]>>
                             \o @]

\* FOR: start, end and step are evaluated, the step being 1 when there is
\* none
ExecFor(prog, r, p, s) ==
    IF Evaluate(s.b, r.env).kind # "value"
    THEN Halt(r, Evaluate(s.b, r.env).code, p.line)
    ELSE IF Evaluate(s.c, r.env).kind # "value"
    THEN Halt(r, Evaluate(s.c, r.env).code, p.line)
    ELSE IF s.d.k = "None"
    THEN ExecLoop(prog, r, p, s.a, AsInt(Evaluate(s.b, r.env).val),
                  AsInt(Evaluate(s.c, r.env).val), 1)
    ELSE IF Evaluate(s.d, r.env).kind # "value"
    THEN Halt(r, Evaluate(s.d, r.env).code, p.line)
    ELSE ExecLoop(prog, r, p, s.a, AsInt(Evaluate(s.b, r.env).val),
                  AsInt(Evaluate(s.c, r.env).val),
                  AsInt(Evaluate(s.d, r.env).val))

\* NEXT with the frame f on top of the loop stack and v the next value of
\* its variable: the body is run again, or the frame is popped
ExecNextValue(r, p, f, v) ==
    IF Past(v, f.limit, f.step)
    THEN [r EXCEPT !.env = EnvSet(@, f.var, VInt(v)),
                   !.pointer = After(p), !.loops = Tail(@)]
    ELSE [r EXCEPT !.env = EnvSet(@, f.var, VInt(v)),
                   !.pointer = f.body,
                   !.loops = <<[f EXCEPT !.seen = Append(@, v)]>>
                             \o Tail(@)]

\* NEXT: the frame is the top one, which a variable that is named must
\* match
ExecNext(r, p, s) ==
    IF r.loops = <<>> THEN Halt(r, "StackUnderflow", p.line)
    ELSE IF s.a.k # "None" /\ s.a.text # Head(r.loops).var
    THEN Halt(r, "StackUnderflow", p.line)
    ELSE ExecNextValue(r, p, Head(r.loops),
                       AsInt(EnvGet(r.env, Head(r.loops).var))
                       + Head(r.loops).step)

\* The items of the DATA statements among the statements ss, in order
RECURSIVE DataOfSet(_)
DataOfSet(ss) ==
    IF ss = <<>> THEN <<>>
    ELSE (IF Head(ss).k = "SData" THEN Head(ss).vals ELSE <<>>)
         \o DataOfSet(Tail(ss))

\* The items of all DATA statements at or after a line, in line order
RECURSIVE DataFrom(_, _)
DataFrom(prog, line) ==
    IF prog = <<>> THEN <<>>
    ELSE (IF Head(prog).line >= line THEN DataOfSet(Head(prog).set.args)
          ELSE <<>>)
         \o DataFrom(Tail(prog), line)

\* The DATA cursor is a line and an item index: the item read next is the
\* one at that index, from 0, among the items at or after that line
NextItem(prog, r) == DataFrom(prog, r.cursor.line)[r.cursor.item + 1]

OutOfData(prog, r) == r.cursor.item >= Len(DataFrom(prog, r.cursor.line))

\* READ: each target takes the next item, coerced to its kind
RECURSIVE ExecRead(_, _, _, _)
ExecRead(prog, r, p, targets) ==
    IF targets = <<>> THEN [r EXCEPT !.pointer = After(p)]
    ELSE IF OutOfData(prog, r) THEN Halt(r, "OutOfData", p.line)
    ELSE ExecRead(prog,
                  [r EXCEPT !.env = EnvSet(@, Head(targets).text,
                                           Coerce(Head(targets),
                                                  NextItem(prog, r))),
                            !.cursor = Cursor(@.line, @.item + 1),
                            !.reads = Append(@, NextItem(prog, r))],
                  p, Tail(targets))

\* RESTORE: the cursor is set to the start, or to the first DATA at or
\* after a line
ExecRestore(r, p, s) ==
    IF s.a.k = "None"
    THEN [r EXCEPT !.cursor = Cursor(0, 0), !.reads = <<>>,
                   !.pointer = After(p)]
    ELSE IF Evaluate(s.a, r.env).kind # "value"
    THEN Halt(r, Evaluate(s.a, r.env).code, p.line)
    ELSE [r EXCEPT !.cursor = Cursor(AsInt(Evaluate(s.a, r.env).val), 0),
                   !.reads = <<>>, !.pointer = After(p)]

\* ON with its index evaluated to n: the n-th target is gone to, as by
\* GOTO or by GOSUB; an index out of range falls through
ExecOnIndex(prog, r, p, s, n) ==
    IF n < 1 \/ n > Len(s.args) THEN [r EXCEPT !.pointer = After(p)]
    ELSE IF s.k = "SOnGosub"
    THEN ExecGosub(prog, r, p, Node1("SGosub", s.args[n]))
    ELSE ExecGoto(prog, r, p, Node1("SGoto", s.args[n]))

ExecOn(prog, r, p, s) ==
    IF Evaluate(s.a, r.env).kind # "value"
    THEN Halt(r, Evaluate(s.a, r.env).code, p.line)
    ELSE ExecOnIndex(prog, r, p, s, AsInt(Evaluate(s.a, r.env).val))

\* An assignment to a scalar variable
ExecAssign(r, p, s) ==
    IF Evaluate(s.b, r.env).kind # "value"
    THEN Halt(r, Evaluate(s.b, r.env).code, p.line)
    ELSE [r EXCEPT !.env = EnvSet(@, s.a.text,
                                  Coerce(s.a, Evaluate(s.b, r.env).val)),
                   !.pointer = After(p)]

\* One statement s, at the address p, of a run
ExecStatement(prog, r, p, s) ==
    CASE s.k = "SGoto" -> ExecGoto(prog, r, p, s)
      [] s.k = "SGosub" -> ExecGosub(prog, r, p, s)
      [] s.k = "SReturn" -> ExecReturn(r, p)
      [] s.k = "SFor" -> ExecFor(prog, r, p, s)
      [] s.k = "SNext" -> ExecNext(r, p, s)
      [] s.k = "SRead" -> ExecRead(prog, r, p, s.args)
      [] s.k = "SRestore" -> ExecRestore(r, p, s)
      [] s.k \in {"SOnGoto", "SOnGosub"} -> ExecOn(prog, r, p, s)
      [] s.k = "SAssignment" -> ExecAssign(r, p, s)
      [] s.k = "SEnd" -> [r EXCEPT !.state = "Ended"]
      [] s.k = "SStop" -> [r EXCEPT !.state = "Stopped"]
      [] s.k \in {"SData", "SNull", "SComment"} ->
            [r EXCEPT !.pointer = After(p)]
      [] OTHER -> Halt(r, "InternalError", p.line)

\* The statement at the pointer is run; a run that falls off the last line
\* has ended
Exec(prog, r) ==
    IF At(prog, r.pointer).line = 0 THEN [r EXCEPT !.state = "Ended"]
    ELSE ExecStatement(prog, r, At(prog, r.pointer),
                       StatementAt(prog, At(prog, r.pointer)))

\* The state of the engine at the start of a run: the stacks, the DATA
\* cursor and the failure are reset, the Environment is kept
Start(prog, r, line) ==
    [state |-> "Running", pointer |-> Address(line, 0), returns |-> <<>>,
     loops |-> <<>>, cursor |-> Cursor(0, 0), env |-> r.env,
     failure |-> NoFailure, reads |-> <<>>]

\* RUN: from the lowest line, or from the line given
ExecRun(prog, r, s) ==
    IF s.a.k = "None" THEN Start(prog, r, First(prog))
    ELSE IF Evaluate(s.a, r.env).kind # "value"
    THEN Halt(r, Evaluate(s.a, r.env).code, 0)
    ELSE Jump(prog, Start(prog, r, 0), AsInt(Evaluate(s.a, r.env).val), 0)

\* A run of at most fuel statements, to its end
RECURSIVE RunFrom(_, _, _)
RunFrom(prog, r, fuel) ==
    IF r.state # "Running" \/ fuel = 0 THEN r
    ELSE RunFrom(prog, Exec(prog, r), fuel - 1)

\* Program.Renum: the lines of the range ran, in order, take the numbers
\* start, start + inc, ...; NewNumber is the number a line has afterwards
Moved(prog, ran) ==
    { prog[i].line :
        i \in { j \in 1..Len(prog) :
                  prog[j].line >= ran.n /\ prog[j].line <= ran.m } }

NewNumber(prog, ran, start, inc, line) ==
    IF line \notin Moved(prog, ran) THEN line
    ELSE start
         + inc * Cardinality({ l \in Moved(prog, ran) : l < line })

\* A jump target that is a literal line number is rewritten
RenumTarget(prog, ran, start, inc, exp) ==
    IF exp.k = "EInt"
    THEN [exp EXCEPT !.n = NewNumber(prog, ran, start, inc, @)]
    ELSE exp

RenumStatement(prog, ran, start, inc, s) ==
    IF s.k \in {"SGoto", "SGosub", "SRestore"}
    THEN [s EXCEPT !.a = RenumTarget(prog, ran, start, inc, @)]
    ELSE IF s.k \in {"SOnGoto", "SOnGosub"}
    THEN [s EXCEPT !.args =
              [i \in 1..Len(s.args) |->
                  RenumTarget(prog, ran, start, inc, s.args[i])]]
    ELSE s

RenumSet(prog, ran, start, inc, set) ==
    StatementSet([i \in 1..Len(set.args) |->
                     RenumStatement(prog, ran, start, inc, set.args[i])])

RECURSIVE RenumLines(_, _, _, _, _)
RenumLines(prog, ran, start, inc, rest) ==
    IF rest = <<>> THEN <<>>
    ELSE ProgramAdd(RenumLines(prog, ran, start, inc, Tail(rest)),
                    NewNumber(prog, ran, start, inc, Head(rest).line),
                    RenumSet(prog, ran, start, inc, Head(rest).set))

\* An increment that is not given is 10
Renum(prog, s) ==
    RenumLines(prog, s.a, s.n, IF s.m < 0 THEN 10 ELSE s.m, prog)

\* The lines of a session as typed: the tokens of each numbered line, kept
\* beside the Program
Typed(lines, line, ts) ==
    [l \in (DOMAIN lines) \cup {line} |-> IF l = line THEN ts ELSE lines[l]]

Session(prog, r) == [program |-> prog, rt |-> r]

\* statement.validate(self.rt).evaluate(self.rt) of an immediate statement;
\* the lines typed hold no immediate statement but RUN and RENUM
ImmediateOne(st, s) ==
    IF s.k = "SRun" THEN Session(st.program, ExecRun(st.program, st.rt, s))
    ELSE IF s.k = "SRenum" THEN Session(Renum(st.program, s), st.rt)
    ELSE st

\* Basic.Execute: the loop over statement_set.set
RECURSIVE Immediate(_, _)
Immediate(st, ss) ==
    IF ss = <<>> THEN st
    ELSE Immediate(ImmediateOne(st, Head(ss)), Tail(ss))

\* Most lines of a Program
MaxLines == 3

\* Basic.Execute: True at the end of the try block, and in the handler the
\* exception written to the screen and False (name: p.read() is read as
\* p.Read(); no statement of the lines typed raises when evaluated)
ExecuteReturn(r) ==
    IF r.kind = "ParserException"
    THEN [returned |-> "False", screen |-> r.err]
    ELSE [returned |-> "True", screen |-> <<>>]

\* Basic.Execute, r being what p.read() returned or raised and st the
\* session after the loop
ExecuteDone(ts, r, st) ==
    /\ parseOut' = [kind |-> r.kind, node |-> r.node, err |-> r.err,
                    caught |-> r.caught]
    /\ program' = IF r.kind = "StatementSet" THEN st.program ELSE r.program
    /\ rt' = st.rt
    /\ typed' = IF r.kind = "StatementSet"
                THEN (IF st.program = program THEN typed ELSE NoLines)
                ELSE IF r.kind = "None" /\ r.caught = <<>>
                THEN Typed(typed, PeekTok(ts, 0).num, Tail(ts))
                ELSE typed
    /\ executed' = ExecuteReturn(r)
    /\ Len(program') <= MaxLines
    /\ UNCHANGED <<notRun, keyboard>>

StatementsOf(r) == IF r.kind = "StatementSet" THEN r.node.args ELSE <<>>

\* A line is typed when no run is under way: RUN runs the program to its
\* end before the next line is read
Execute(ts) ==
    /\ rt.state # "Running"
    /\ ExecuteDone(ts, ReadCommand(ts, program),
                   Immediate(Session(program, rt),
                             StatementsOf(ReadCommand(ts, program))))

\* One statement of the run
Step ==
    /\ rt.state = "Running"
    /\ rt' = Exec(program, rt)
    /\ Len(rt'.returns) <= MaxDepth
    /\ Len(rt'.loops) <= MaxDepth
    /\ UNCHANGED <<notRun, parseVars, typed, keyboard, executed>>

Numbered(line, ts) == <<TInt(line)>> \o ts

Let(name, n) == <<TId(name), T("EQUAL"), TInt(n)>>

For(name, n, m) ==
    <<TKey("FOR"), TId(name), T("EQUAL"), TInt(n), TKey("TO"), TInt(m)>>

RunLine == <<TKey("RUN")>>

\* The lines a session may type, by what the program is about
GosubLines ==
    { RunLine,
      Numbered(10, <<TKey("GOSUB"), TInt(30), T("COLON")>> \o Let("a%", 1)),
      Numbered(10, <<TKey("RETURN")>>),
      Numbered(20, <<TKey("END")>>),
      Numbered(20, <<TKey("RETURN")>>),
      Numbered(30, <<TKey("RETURN")>>),
      Numbered(30, <<TKey("GOSUB"), TInt(20), T("COLON"), TKey("RETURN")>>) }

ForLines ==
    { RunLine,
      Numbered(10, Let("a%", 2) \o <<T("COLON"), TKey("FOR"), TId("i%"),
                                     T("EQUAL"), TInt(1), TKey("TO"),
                                     TId("a%")>>),
      Numbered(10, For("i%", 5, 1)),
      Numbered(10, For("i%", 3, 1) \o <<TKey("STEP"), T("MINUS"), TInt(1)>>),
      Numbered(10, For("i%", 1, 3)),
      Numbered(20, Let("a%", 5)),
      Numbered(20, For("a%", 1, 2)),
      Numbered(30, <<TKey("NEXT")>>),
      Numbered(30, <<TKey("NEXT"), TId("i%")>>),
      Numbered(30, <<TKey("NEXT"), T("COLON"), TKey("NEXT")>>) }

DataLines ==
    { RunLine,
      Numbered(10, <<TKey("DATA"), TInt(1), T("COMMA"), TInt(2)>>),
      Numbered(20, <<TKey("DATA"), TInt(3)>>),
      Numbered(20, <<TKey("READ"), TId("a%")>>),
      Numbered(30, <<TKey("READ"), TId("a%"), T("COMMA"), TId("i%"),
                     T("COLON"), TKey("READ"), TId("a%")>>),
      Numbered(30, <<TKey("READ"), TId("a%"), T("COLON"), TKey("RESTORE"),
                     T("COLON"), TKey("READ"), TId("i%")>>),
      Numbered(30, <<TKey("READ"), TId("a%"), T("COLON"), TKey("RESTORE"),
                     TInt(20), T("COLON"), TKey("READ"), TId("i%")>>),
      Numbered(30, <<TKey("READ"), TId("a%"), T("COMMA"), TId("i%"),
                     T("COMMA"), TId("a%"), T("COMMA"), TId("i%")>>) }

On(n, word, l1, l2) ==
    <<TKey("ON"), TInt(n), TKey(word), TInt(l1), T("COMMA"), TInt(l2),
      T("COLON")>>

OnLines ==
    { RunLine,
      Numbered(10, On(2, "GOTO", 20, 30) \o Let("a%", 1)),
      Numbered(10, On(5, "GOTO", 20, 30) \o Let("a%", 1)),
      Numbered(10, On(0, "GOSUB", 30, 20) \o Let("a%", 1)),
      Numbered(10, On(1, "GOSUB", 30, 20) \o <<TKey("END")>>),
      Numbered(20, <<TKey("END")>>),
      Numbered(20, Let("a%", 2)),
      Numbered(30, <<TKey("RETURN")>>),
      Numbered(30, Let("a%", 3)) }

RenumberLines ==
    { RunLine,
      <<TKey("RENUM"), TKey("TO"), TInt(100)>>,
      Numbered(10, Let("a%", 20) \o <<T("COLON"), TKey("GOTO"), TId("a%")>>),
      Numbered(10, <<TKey("GOTO"), TInt(20)>>),
      Numbered(20, <<TKey("END")>>) }

\* Lines that do not lex or do not parse, with and without a line number
FailingLines ==
    { RunLine,
      <<TKey("GOTO")>>,
      <<LEXERR>>,
      <<TKey("END"), T("COLON"), TKey("GOTO")>>,
      Numbered(10, <<TKey("END")>>),
      Numbered(10, <<TKey("GOTO")>>),
      Numbered(20, <<TKey("END"), T("COLON"), LEXERR>>) }

Families ==
    {GosubLines, ForLines, DataLines, OnLines, RenumberLines, FailingLines}

InitRun ==
    /\ program = <<>>
    /\ parseOut = NoRead
    /\ rt = Ready
    /\ typed = NoLines
    /\ keyboard \in Families
    /\ executed = NoExecute
    /\ LexIdle
    /\ EvalIdle
    /\ ReadIdle
    /\ EnvIdle

NextRun ==
    \/ \E ts \in keyboard : Execute(ts)
    \/ Step

SpecRun == InitRun /\ [][NextRun]_vars

(***************************************************************************)
(* Claims about the lexer.                                                  *)
(***************************************************************************)
IsPrefix(s, t) == Len(s) <= Len(t) /\ s = SubSeq(t, 1, Len(s))

Line10Tokens ==
    << Tok("INT", 10, 0, ""),
       Tok("KEYWORD", 0, 0, "PRINT"),
       Tok("STRING", 0, 0, "HI"),
       Tok("SEMICOLON", 0, 0, ""),
       Tok("ID_INT", 0, 0, "a%"),
       Tok("EOF", 0, 0, "") >>

\* C1: repeated Get on a stream over the line 10 PRINT "HI";A% returns
\* INT 10, KEYWORD PRINT, STRING "HI", SEMICOLON, ID_INT "a%" and then EOF,
\* in this order: every call returns, and what has been returned so far is
\* the beginning of that sequence.
C1_Line10TokenSequence ==
    buffer = Line10 =>
        /\ lexOut.kind \in {"none", "token"}
        /\ IsPrefix(got, Line10Tokens)

\* The characters that begin no token
NoTokenChars == {"#", "!", "@", "%", "$"}

\* C10: a call of the lexer that starts a token at a character that begins
\* no token raises the lexical error, carrying that character and its
\* column; it returns no token and does not stay in the initial state.
C10_UnrecognizedCharRaises ==
    [][ ( /\ peek = NoToken
          /\ CharAt(buffer, offset) \in NoTokenChars
          /\ Get \/ Peek )
        => ( /\ lexOut'.kind = "TokenException"
             /\ lexOut'.ch = CharAt(buffer, offset)
             /\ lexOut'.col = offset ) ]_vars

\* C9: every token the lexer returns renders (Token.__str__) to a text that
\* the lexer reads back as a token of the same type and value.
C9_TokenRoundTrip ==
    lexOut.kind = "token" =>
        /\ TokenStr(lexOut.tok).ok
        /\ ReadToken(TokenStr(lexOut.tok).text, 0).kind = "token"
        /\ ReadToken(TokenStr(lexOut.tok).text, 0).tok = lexOut.tok

\* Every character of the buffer from the offset on is whitespace
OnlyWhitespaceLeft ==
    \A i \in (offset + 1)..Len(buffer) : IsWhitespace(CharOf(buffer, i))

\* The last call returned the EOF token
ReturnedEOF(out) == out.kind = "token" /\ out.tok.type = "EOF"

\* C11: every call of Get or Peek ends; a call made when every character
\* of the buffer is consumed (and no token is held for lookahead) returns
\* the EOF token and leaves the offset where it is; and the EOF token is
\* not returned while a character that is not whitespace is still unread.
C11_EofAtEnd ==
    /\ [](lexOut.kind # "hang")
    /\ [](ReturnedEOF(lexOut) => OnlyWhitespaceLeft)
    /\ [][(EOF(buffer, offset) /\ peek = NoToken /\ (Get \/ Peek))
             => (ReturnedEOF(lexOut') /\ offset' = offset)]_vars

\* The first n tokens of a buffer from the offset off, read one after the
\* other by _ReadToken alone; a call that raises returns no token and the
\* next call reads on from where it stopped
RECURSIVE TokensOf(_, _, _)
TokensOf(buf, off, n) ==
    IF n = 0 \/ ReadToken(buf, off).kind = "hang" THEN <<>>
    ELSE IF ReadToken(buf, off).kind # "token"
    THEN TokensOf(buf, ReadToken(buf, off).off, n)
    ELSE <<ReadToken(buf, off).tok>>
         \o TokensOf(buf, ReadToken(buf, off).off, n - 1)

\* A call that returns a token: Peek consumes nothing and holds the token
\* it returns; with a token held, Peek and Get return that token without
\* reading the buffer, and Get lets go of it
LookaheadStep ==
    /\ (Peek /\ lexOut'.kind = "token")
        => /\ got' = got
           /\ peek' = lexOut'.tok
    /\ (peek # NoToken /\ (Get \/ Peek))
        => /\ lexOut' = Ret(peek, offset)
           /\ offset' = offset
    /\ (peek # NoToken /\ Get)
        => /\ got' = Append(got, peek)
           /\ peek' = NoToken

\* C12: Peek returns the next token without consuming it, consecutive
\* Peeks return the same token, the Get after a Peek returns that token,
\* and the tokens returned by Get are those of the buffer in order,
\* whatever calls of Peek come between the calls of Get.
C12_OneTokenLookahead ==
    /\ [](got = TokensOf(buffer, 0, Len(got)))
    /\ [][LookaheadStep]_vars

\* A token is held for lookahead after two tokens have been returned by Get
C12_Witness ==
    /\ Len(got) >= 2
    /\ peek # NoToken
    /\ peek.type # "EOF"
    /\ got[1] # got[2]

\* The number of letters and digits of buf from the offset off on
RECURSIVE RunLen(_, _)
RunLen(buf, off) ==
    IF IsLetter(CharAt(buf, off)) \/ IsDigit(CharAt(buf, off))
    THEN 1 + RunLen(buf, off + 1)
    ELSE 0

\* The identifier lexeme of buf at off: the letters and digits, and the
\* sigil % or $ when one follows them
Lexeme(buf, off) ==
    SubSeq(buf, off + 1,
           off + RunLen(buf, off)
           + (IF CharAt(buf, off + RunLen(buf, off)) \in {"%", "$"}
              THEN 1 ELSE 0))

\* The token an identifier lexeme stands for
Classified(lex) ==
    IF Upper(lex) \in KEYWORDS THEN Tok("KEYWORD", 0, 0, Upper(lex))
    ELSE IF Upper(lex) \in FUNCTIONS THEN Tok("FUNCTION", 0, 0, Upper(lex))
    ELSE IF CharOf(lex, Len(lex)) = "%" THEN Tok("ID_INT", 0, 0, Lower(lex))
    ELSE IF CharOf(lex, Len(lex)) = "$"
    THEN Tok("ID_STRING", 0, 0, Lower(lex))
    ELSE Tok("ID_FLOAT", 0, 0, Lower(lex))

\* The word REM at the end of the buffer or before a blank begins a
\* comment: it is no identifier
IsRem(buf, off) ==
    /\ Upper(Lexeme(buf, off)) = "REM"
    /\ CharAt(buf, off + 3) \in {NUL, " "}

C13_WitnessFunction ==
    /\ buffer = "chr$;"
    /\ lexOut = Ret(Tok("FUNCTION", 0, 0, "CHR$"), 4)

\* The number of decimal digits of buf from the offset off on
RECURSIVE DigitsLen(_, _)
DigitsLen(buf, off) ==
    IF IsDigit(CharAt(buf, off)) THEN 1 + DigitsLen(buf, off + 1) ELSE 0

\* The length of the fractional part of a literal at off, the point
\* included: 0 when no point with a digit after it is there
FracLen(buf, off) ==
    IF CharAt(buf, off) = "." /\ DigitsLen(buf, off + 1) > 0
    THEN 1 + DigitsLen(buf, off + 1)
    ELSE 0

SignLen(buf, off) == IF CharAt(buf, off) \in {"+", "-"} THEN 1 ELSE 0

\* The length of the exponent of a literal at off, the E and the sign
\* included: 0 when no E with a digit after it is there
ExpLen(buf, off) ==
    IF CharAt(buf, off) \in {"E", "e"}
       /\ DigitsLen(buf, off + 1 + SignLen(buf, off + 1)) > 0
    THEN 1 + SignLen(buf, off + 1)
         + DigitsLen(buf, off + 1 + SignLen(buf, off + 1))
    ELSE 0

\* The token of the literal with n1 integer digits at off, a fractional
\* part of length n2 and an exponent of length n3
LiteralToken(buf, off, n1, n2, n3) ==
    IF n2 = 0 /\ n3 = 0
    THEN Tok("INT", IntOf(SubSeq(buf, off + 1, off + n1), 10), 0, "")
    ELSE Tok("FLOAT",
             Norm(IntOf(SubSeq(buf, off + 1, off + n1)
                        \o SubSeq(buf, off + n1 + 2, off + n1 + n2), 10),
                  (IF n3 = 0 THEN 0
                   ELSE IF CharAt(buf, off + n1 + n2 + 1) = "-"
                   THEN 0 - IntOf(SubSeq(buf, off + n1 + n2 + 3,
                                         off + n1 + n2 + n3), 10)
                   ELSE IntOf(SubSeq(buf, off + n1 + n2 + 2
                                          + SignLen(buf, off + n1 + n2 + 1),
                                     off + n1 + n2 + n3), 10))
                  - (IF n2 = 0 THEN 0 ELSE n2 - 1)).m,
             Norm(IntOf(SubSeq(buf, off + 1, off + n1)
                        \o SubSeq(buf, off + n1 + 2, off + n1 + n2), 10),
                  (IF n3 = 0 THEN 0
                   ELSE IF CharAt(buf, off + n1 + n2 + 1) = "-"
                   THEN 0 - IntOf(SubSeq(buf, off + n1 + n2 + 3,
                                         off + n1 + n2 + n3), 10)
                   ELSE IntOf(SubSeq(buf, off + n1 + n2 + 2
                                          + SignLen(buf, off + n1 + n2 + 1),
                                     off + n1 + n2 + n3), 10))
                  - (IF n2 = 0 THEN 0 ELSE n2 - 1)).e,
             "")

\* The call that reads the literal at off returns its token and stops
\* just after it
LiteralRead(out, buf, off, n1, n2, n3) ==
    out = Ret(LiteralToken(buf, off, n1, n2, n3), off + n1 + n2 + n3)

\* C14: a call that starts at a digit, or at a point followed by a digit,
\* returns: the INT token of the decimal value of the digits when no
\* fractional part and no exponent follow them, the FLOAT token of the
\* value of the literal otherwise; and the offset is then at the first
\* character that is not part of the literal.
C14_NumberLiterals ==
    [][(/\ peek = NoToken
        /\ DigitsLen(buffer, offset) + FracLen(buffer, offset) > 0
        /\ Get \/ Peek)
         => LiteralRead(lexOut', buffer, offset, DigitsLen(buffer, offset),
                        FracLen(buffer, offset + DigitsLen(buffer, offset)),
                        ExpLen(buffer,
                               offset + DigitsLen(buffer, offset)
                               + FracLen(buffer,
                                         offset + DigitsLen(buffer, offset))))
    ]_vars

(***************************************************************************)
(* Claims about the value engine.                                           *)
(***************************************************************************)
NumericKinds == {"Int", "Float"}

\* C2: EAdd.Evaluate gives Int(a+b) for Int a and Int b, Float(a+b) for any
\* other pairing of Int and Float operands, String(s1 followed by s2) for
\* two Strings, and raises the type error, returning no value, for an Int
\* or Float paired with a String.
C2_AddByKinds ==
    evalOp = "Add" =>
        /\ (valA.kind = "Int" /\ valB.kind = "Int")
            => evalOut = Returned(VInt(valA.num + valB.num))
        /\ ( /\ valA.kind \in NumericKinds
             /\ valB.kind \in NumericKinds
             /\ "Float" \in {valA.kind, valB.kind} )
            => /\ evalOut.kind = "value"
               /\ evalOut.val.kind = "Float"
               /\ [m |-> evalOut.val.num, e |-> evalOut.val.exp]
                    = FloatAdd(AsFloat(valA), AsFloat(valB))
        /\ (valA.kind = "String" /\ valB.kind = "String")
            => evalOut = Returned(VString(valA.text \o valB.text))
        /\ ( \/ valA.kind \in NumericKinds /\ valB.kind = "String"
             \/ valA.kind = "String" /\ valB.kind \in NumericKinds )
            => evalOut = EvalException("ERR_TYPE")

\* A Float added to an Int has been evaluated
C2_Witness ==
    /\ evalOp = "Add"
    /\ valA.kind = "Float"
    /\ valB.kind = "Int"
    /\ valB.num # 0
    /\ evalOut.kind = "value"

\* One operand at least is Null; other is an operand that is paired with
\* Null (either one when both are Null)
NullOperand == valA = VNull \/ valB = VNull

OtherOperand == IF valA = VNull THEN valB ELSE valA

\* Null + Int n is Int n, Null + Float f is Float f, Null + String s is
\* String s, in either operand order
NullAdds ==
    (evalOp = "Add" /\ NullOperand)
        => /\ evalOut.kind = "value"
           /\ OtherOperand.kind \in {"Int", "Float", "String"}
                  => evalOut = Returned(OtherOperand)

\* C21 as stated: Add and AND with a Null operand raise no type error
\* whatever the kind of the other operand; Null added to an Int, a Float or
\* a String is that value, and AND takes Null for the number 0.
C21_NullNeverTypeError ==
    /\ NullAdds
    /\ (evalOp = "And" /\ NullOperand) => evalOut = Returned(VInt(0))

\* C21: Add with a Null operand raises no type error whatever the kind of
\* the other operand, Null added to an Int, a Float or a String being that
\* value in either operand order; AND takes a Null operand for the number
\* 0 and returns Int 0 when the other operand is an Int, a Float or Null,
\* and raises the type error when the other operand is a String.
C21_NullCoerces ==
    /\ NullAdds
    /\ (evalOp = "And" /\ NullOperand)
           => IF OtherOperand.kind = "String"
              THEN evalOut = EvalException("ERR_TYPE")
              ELSE evalOut = Returned(VInt(0))

\* Null has been added to a String that is not empty
C21_Witness ==
    /\ evalOp = "Add"
    /\ valA = VNull
    /\ valB.kind = "String"
    /\ valB.text # ""
    /\ evalOut = Returned(valB)

\* AND of a Float that is not zero and Null has been evaluated
C21_WitnessAnd ==
    /\ evalOp = "And"
    /\ valA.kind = "Float"
    /\ AsInt(valA) # 0
    /\ valB = VNull
    /\ evalOut = Returned(VInt(0))

\* The integer a numeric value stands for in AND: an Int itself, Null 0, a
\* Float m * 10^e cut off towards zero
IntPart(v) ==
    IF v.kind = "Int" THEN v.num
    ELSE IF v.kind = "Null" THEN 0
    ELSE IF v.exp >= 0 THEN v.num * Pow(10, v.exp)
    ELSE LET size == IF v.num < 0 THEN 0 - v.num ELSE v.num
             whole == CHOOSE n \in 0..size :
                          /\ n * Pow(10, 0 - v.exp) <= size
                          /\ size < (n + 1) * Pow(10, 0 - v.exp)
         IN  IF v.num < 0 THEN 0 - whole ELSE whole

\* The bits of x & y in two's complement of 8 bits, which holds every
\* operand tried
Bit(x, i) == ((x % 256) \div Pow(2, i)) % 2

RECURSIVE AndOfBits(_, _, _)
AndOfBits(x, y, i) ==
    IF i = 0 THEN Bit(x, 0) * Bit(y, 0)
    ELSE Bit(x, i) * Bit(y, i) * Pow(2, i) + AndOfBits(x, y, i - 1)

BitwiseAnd(x, y) ==
    IF AndOfBits(x, y, 7) >= 128 THEN AndOfBits(x, y, 7) - 256
    ELSE AndOfBits(x, y, 7)

AndValue ==
    IF "String" \in {valA.kind, valB.kind} THEN EvalException("ERR_TYPE")
    ELSE Returned(VInt(BitwiseAnd(IntPart(valA), IntPart(valB))))

C22_WitnessNegative ==
    /\ evalOp = "And"
    /\ valA.kind = "Float"
    /\ valA.num < 0
    /\ valA.exp < 0
    /\ valB = VInt(0 - 2)
    /\ evalOut.kind = "value"

\* A character a filename may hold
FilenameChar(ch) ==
    IsLetter(ch) \/ IsDigit(ch) \/ ch \in {"-", "_", ".", " "}

\* The legality of a filename: 1 to 40 characters, each a letter, a digit,
\* '-', '_', '.' or a space, neither the first nor the last a space
LegalFilename(text) ==
    /\ Len(text) \in 1..40
    /\ \A i \in 1..Len(text) : FilenameChar(CharOf(text, i))
    /\ CharOf(text, 1) # " "
    /\ CharOf(text, Len(text)) # " "

\* C23: VString.IsValidFilename returns true exactly when the string has
\* 1 to 40 characters, each a letter, a digit, '-', '_', '.' or a space,
\* and neither the first nor the last is a space; false for any other.
C23_ValidFilename ==
    evalOp = "IsValidFilename"
        => evalOut = Answered(LegalFilename(valA.text))

(***************************************************************************)
(* Claims about the parser.                                                 *)
(***************************************************************************)
\* C3: when Read is given a line that begins with a line number, the
\* Program changes only by the Add of that line with the statement set
\* read from the whole rest of the line, and when reading that statement
\* list fails (a token that does not lex, a statement that does not parse,
\* at the first statement or after several) the Program is left as it was.
C3_NoPartialMutation ==
    [][ /\ parseOut'.caught # <<>> => program' = program
        /\ program' # program =>
              /\ parseOut'.kind = "None"
              /\ \E ts \in InputLines :
                    LET set == ReadStatementList(ts, 1)
                    IN  /\ PeekTok(ts, 0).type = "INT"
                        /\ set.ok
                        /\ program' = ProgramAdd(program, PeekTok(ts, 0).num,
                                                 set.node) ]_vars

\* C3 witness: a numbered line failed to parse while the Program held a line
C3_Witness ==
    /\ parseOut.kind = "None"
    /\ parseOut.caught # <<>>
    /\ Len(parseOut.caught) > 3
    /\ program # <<>>

(***************************************************************************)
(* Claims about the execution engine.  A claim about a statement reads the *)
(* statement from the line as typed, so that it is about what the parser   *)
(* makes of the line as much as about what the engine makes of the         *)
(* statement.                                                              *)
(***************************************************************************)
\* The tokens of statement n, from 0, of a line: the statements of a line
\* are separated by colons
RECURSIVE Segment(_, _)
Segment(ts, n) ==
    IF ts = <<>> THEN <<>>
    ELSE IF Head(ts).type = "COLON"
    THEN (IF n = 0 THEN <<>> ELSE Segment(Tail(ts), n - 1))
    ELSE IF n = 0 THEN <<Head(ts)>> \o Segment(Tail(ts), 0)
    ELSE Segment(Tail(ts), n)

\* The statement at an address, as typed
TypedAt(p) ==
    IF p.line \in DOMAIN typed THEN Segment(typed[p.line], p.offset)
    ELSE <<>>

\* The keyword a statement as typed begins with
Keyword(seg) ==
    IF seg # <<>> /\ seg[1].type = "KEYWORD" THEN seg[1].text ELSE ""

\* The statement the next step of the run executes, as typed
Current == TypedAt(At(program, rt.pointer))

\* The step from the state r of a run to the state q executes GOSUB or
\* RETURN, typed as seg at the address p, as claimed
GosubReturnStep(r, q, p, seg) ==
    /\ (Keyword(seg) = "GOSUB" /\ seg[2].type = "INT"
            /\ HasLine(program, seg[2].num))
        => /\ q.state = "Running"
           /\ q.pointer = Address(seg[2].num, 0)
           /\ q.returns = <<After(p)>> \o r.returns
    /\ (Keyword(seg) = "RETURN" /\ r.returns # <<>>)
        => /\ q.state = "Running"
           /\ q.pointer = Head(r.returns)
           /\ q.returns = Tail(r.returns)
    /\ (Keyword(seg) = "RETURN" /\ r.returns = <<>>)
        => /\ q.state = "Ended"
           /\ q.failure = [kind |-> "StackUnderflow", line |-> p.line]
    /\ Keyword(seg) \notin {"GOSUB", "RETURN", "ON"}
        => q.returns = r.returns

TypedInt(seg, i, env) ==
    IF seg[i].type = "INT" THEN seg[i].num
    ELSE IF seg[i].type = "MINUS" THEN 0 - seg[i + 1].num
    ELSE AsInt(EnvGet(env, seg[i].text))

\* The step of FOR var = start TO end [STEP step] as typed
TypedStep(seg, env) ==
    IF Len(seg) > 7 /\ seg[7] = TKey("STEP") THEN TypedInt(seg, 8, env)
    ELSE 1

\* The values the body of the loop of a frame has been run with are
\* start, start + step, ..., none of them past the limit
Progression(f) ==
    \A i \in 1..Len(f.seen) :
        /\ f.seen[i] = f.start + (i - 1) * f.step
        /\ ~Past(f.seen[i], f.limit, f.step)

\* The step from r to q executes the FOR typed as seg at p, with the start
\* s, the limit e and the step d as typed
ForStep(r, q, p, seg, s, e, d) ==
    /\ q.state = "Running"
    /\ EnvGet(q.env, seg[2].text) = VInt(s)
    /\ IF Past(s, e, d)
       THEN /\ q.loops = r.loops
            /\ \/ At(program, q.pointer).line = 0
               \/ /\ q.pointer.offset > 0
                  /\ Keyword(TypedAt(Address(q.pointer.line,
                                             q.pointer.offset - 1))) = "NEXT"
                  /\ q.pointer = AfterMatchingNext(program, After(p), 0)
       ELSE /\ q.pointer = After(p)
            /\ q.loops # <<>>
            /\ Tail(q.loops) = r.loops
            /\ Head(q.loops).start = s
            /\ Head(q.loops).limit = e
            /\ Head(q.loops).step = d
            /\ Head(q.loops).seen = <<s>>

\* The step from r to q executes a NEXT at p, f being the frame on top and
\* v the value of its variable plus its step
NextStep(r, q, p, f, v) ==
    /\ q.state = "Running"
    /\ EnvGet(q.env, f.var) = VInt(v)
    /\ IF Past(v, f.limit, f.step)
       THEN q.loops = Tail(r.loops) /\ q.pointer = After(p)
       ELSE /\ q.pointer = f.body
            /\ q.loops # <<>>
            /\ Tail(q.loops) = Tail(r.loops)
            /\ Head(q.loops) = [f EXCEPT !.seen = Append(@, v)]

ForNextStep(r, q, p, seg) ==
    /\ Keyword(seg) = "FOR"
        => ForStep(r, q, p, seg, TypedInt(seg, 4, r.env),
                   TypedInt(seg, 6, r.env), TypedStep(seg, r.env))
    /\ (Keyword(seg) = "NEXT" /\ r.loops # <<>>
            /\ (Len(seg) > 1 => seg[2].text = Head(r.loops).var))
        => NextStep(r, q, p, Head(r.loops),
                    AsInt(EnvGet(r.env, Head(r.loops).var))
                    + Head(r.loops).step)
    /\ Keyword(seg) \notin {"FOR", "NEXT"} => q.loops = r.loops
    /\ \A i \in 1..Len(q.loops) : Progression(q.loops[i])

C5_WitnessSkipped ==
    /\ rt.state = "Running"
    /\ rt.loops = <<>>
    /\ EnvGet(rt.env, "i%") = VInt(5)
    /\ At(program, rt.pointer).line = 0
    /\ HasLine(program, 30)

\* The items of the DATA statements of a line as typed
RECURSIVE DataTokens(_, _)
DataTokens(ts, on) ==
    IF ts = <<>> THEN <<>>
    ELSE IF Head(ts).type = "COLON" THEN DataTokens(Tail(ts), FALSE)
    ELSE IF Head(ts) = TKey("DATA") THEN DataTokens(Tail(ts), TRUE)
    ELSE IF on /\ Head(ts).type = "INT"
    THEN <<VInt(Head(ts).num)>> \o DataTokens(Tail(ts), on)
    ELSE DataTokens(Tail(ts), on)

Lowest(lines) == CHOOSE l \in lines : \A m \in lines : l <= m

\* The items of the DATA statements as typed, of the lines among lines
\* that are at or after from, in line order
RECURSIVE TypedData(_, _)
TypedData(lines, from) ==
    IF lines = {} THEN <<>>
    ELSE (IF Lowest(lines) >= from
          THEN DataTokens(typed[Lowest(lines)], FALSE) ELSE <<>>)
         \o TypedData(lines \ {Lowest(lines)}, from)

\* Every line of the Program is there as typed
AllTyped == DOMAIN typed = { program[i].line : i \in 1..Len(program) }

\* The step from r to q executes a READ of k variables typed as seg at p,
\* data being the items from the line of the cursor on
ReadStep(r, q, p, seg, k, data) ==
    IF r.cursor.item + k > Len(data)
    THEN /\ q.state = "Ended"
         /\ q.failure = [kind |-> "OutOfData", line |-> p.line]
    ELSE /\ q.state = "Running"
         /\ q.pointer = After(p)
         /\ q.cursor = Cursor(r.cursor.line, r.cursor.item + k)
         /\ q.reads
              = r.reads
                \o SubSeq(data, r.cursor.item + 1, r.cursor.item + k)
         /\ \A i \in 1..k :
              (\A j \in (i + 1)..k : seg[2 * j] # seg[2 * i])
                => EnvGet(q.env, seg[2 * i].text) = data[r.cursor.item + i]

DataStep(r, q, p, seg) ==
    /\ Keyword(seg) = "READ"
        => ReadStep(r, q, p, seg, Len(seg) \div 2,
                    TypedData(DOMAIN typed, r.cursor.line))
    /\ Keyword(seg) = "RESTORE"
        => /\ q.state = "Running"
           /\ q.pointer = After(p)
           /\ q.cursor = Cursor(IF Len(seg) > 1 THEN seg[2].num ELSE 0, 0)
    /\ Keyword(seg) \notin {"READ", "RESTORE"} => q.cursor = r.cursor

C6_WitnessOutOfData ==
    /\ rt.failure.kind = "OutOfData"
    /\ rt.reads = <<VInt(1), VInt(2), VInt(3)>>

\* Most statements of a run that is compared with another
MaxSteps == 8

\* Two runs end alike: in the same state, with the same error or none, and
\* with the same values of the variables
SameOutcome(a, b) ==
    /\ a.state = b.state
    /\ a.failure.kind = b.failure.kind
    /\ a.env = b.env

\* The run of a program from its lowest line, with the variables as they
\* are
RunOf(prog) == RunFrom(prog, Start(prog, rt, First(prog)), MaxSteps)

\* The literal targets of the GOTOs and GOSUBs of prog are, in next, the
\* new numbers of the lines they named, s being the RENUM executed
TargetsFollow(prog, next, s) ==
    /\ Len(next) = Len(prog)
    /\ \A i \in 1..Len(prog) :
         /\ Len(next[i].set.args) = Len(prog[i].set.args)
         /\ \A j \in 1..Len(prog[i].set.args) :
              (/\ prog[i].set.args[j].k \in {"SGoto", "SGosub"}
               /\ prog[i].set.args[j].a.k = "EInt")
                => next[i].set.args[j].a.n
                     = NewNumber(prog, s.a, s.n,
                                 IF s.m < 0 THEN 10 ELSE s.m,
                                 prog[i].set.args[j].a.n)

OnStep(r, q, p, seg, n, k) ==
    /\ q.loops = r.loops
    /\ IF n < 1 \/ n > k
       THEN /\ q.state = "Running"
            /\ q.failure = NoFailure
            /\ q.pointer = After(p)
            /\ q.returns = r.returns
       ELSE HasLine(program, seg[2 + 2 * n].num)
              => /\ q.state = "Running"
                 /\ q.pointer = Address(seg[2 + 2 * n].num, 0)
                 /\ q.returns = IF seg[3] = TKey("GOSUB")
                                THEN <<After(p)>> \o r.returns
                                ELSE r.returns

C8_WitnessFallsThrough ==
    /\ rt.state = "Running"
    /\ rt.pointer = Address(10, 1)
    /\ rt.returns = <<>>
    /\ 10 \in DOMAIN typed
    /\ typed[10][2] = TInt(5)


(***************************************************************************)
(* The reading methods of a Parser, each called on a line of tokens.       *)
(***************************************************************************)
MaxUnary == 2

MaxChain == 4

MaxArgs == 4

MaxItems == 2

RECURSIVE TokSeqsUpTo(_, _)
TokSeqsUpTo(S, n) ==
    IF n = 0 THEN {<<>>}
    ELSE LET shorter == TokSeqsUpTo(S, n - 1)
         IN  shorter \cup { Append(s, c) : s \in shorter, c \in S }

\* The i-th operand of an expression: a, b, c, a, ...
Operand(i) == TId(<<"a", "b", "c">>[((i - 1) % 3) + 1])

BinaryOps ==
    {TKey("OR"), TKey("AND"), T("EQUAL"), T("NEQUAL"), T("LT"), T("LEQ"),
     T("GT"), T("GEQ"), T("PLUS"), T("MINUS"), T("TIMES"), T("DIVIDE"),
     TKey("MOD"), T("POWER")}

UnaryOps == {T("PLUS"), T("MINUS"), TKey("NOT")}

\* x op1 y op2 z
Binary(op1, op2) == <<Operand(1), op1, Operand(2), op2, Operand(3)>>

BinaryStreams == { Binary(op1, op2) : op1 \in BinaryOps, op2 \in BinaryOps }

\* a ^ b ^ c ... of n operands
RECURSIVE PowerChain(_)
PowerChain(n) ==
    IF n = 1 THEN <<Operand(1)>>
    ELSE PowerChain(n - 1) \o <<T("POWER"), Operand(n)>>

UnaryStreams ==
    { ops \o PowerChain(n) : ops \in TokSeqsUpTo(UnaryOps, MaxUnary),
                             n \in 1..MaxChain }

\* a , b , c ... of n operands
RECURSIVE Args(_)
Args(n) ==
    IF n = 0 THEN <<>>
    ELSE IF n = 1 THEN <<Operand(1)>>
    ELSE Args(n - 1) \o <<T("COMMA"), Operand(n)>>

\* NAME ( a , b ... ) with n arguments
Call(name, n) == <<TFun(name), T("LPAREN")>> \o Args(n) \o <<T("RPAREN")>>

CallStreams ==
    { Call(name, n) : name \in CallNames, n \in 0..MaxArgs }
    \cup {<<TFun("RND")>>}

\* The expressions of the items of a PRINT line, and what follows an item
ItemExps == {<<TId("a")>>, <<TInt(1), T("PLUS"), TId("b")>>}

Separators == {"COMMA", "SEMICOLON", "FINAL"}

Items == { <<e, s>> : e \in ItemExps, s \in Separators }

\* Lists of items where only the last one may have no separator after it
ItemLists ==
    { l \in TokSeqsUpTo(Items, MaxItems) :
        \A i \in 1..(Len(l) - 1) : l[i][2] # "FINAL" }

RECURSIVE ItemTokens(_)
ItemTokens(l) ==
    IF l = <<>> THEN <<>>
    ELSE l[1][1] \o (IF l[1][2] = "FINAL" THEN <<>> ELSE <<T(l[1][2])>>)
         \o ItemTokens(Tail(l))

\* What a PRINT statement is followed by on its line
Tails == {<<>>, <<T("COLON"), TKey("CLS")>>, <<TKey("ELSE"), TKey("CLS")>>}

PrintLine(l, rest) == <<TKey("PRINT")>> \o ItemTokens(l) \o rest

PrintStreams == { PrintLine(l, rest) : l \in ItemLists, rest \in Tails }

\* a = b and a <> b
Equality(op) == <<Operand(1), op, Operand(2)>>

EqualityStreams == { Equality(op) : op \in {T("EQUAL"), T("NEQUAL")} }

\* ABS ( 1 ), and with it ABS(1) + 2, (ABS(1)) and the call without its
\* closing parenthesis
AbsOfOne == <<TFun("ABS"), T("LPAREN"), TInt(1), T("RPAREN")>>

AbsPlusTwo == AbsOfOne \o <<T("PLUS"), TInt(2)>>

AbsInParens == <<T("LPAREN")>> \o AbsOfOne \o <<T("RPAREN")>>

AbsUnclosed == SubSeq(AbsOfOne, 1, 3)

ClosingStreams == {AbsOfOne, AbsPlusTwo, AbsInParens, AbsUnclosed}

\* The positions of a DATA statement
MaxData == 2

\* What stands at a position: nothing, a number, a number after a minus
\* sign, a string, a bare word, a keyword, the name of a function
DataItems ==
    {<<>>, <<TInt(5)>>, <<TFloat(15, 0 - 1)>>, <<T("MINUS"), TInt(5)>>,
     <<T("MINUS"), TFloat(15, 0 - 1)>>, <<TStr("s")>>, <<TId("a")>>,
     <<TKey("END")>>, <<TFun("ABS")>>}

DataLists == TokSeqsUpTo(DataItems, MaxData) \ {<<>>}

\* The items with a comma between one and the next
RECURSIVE DataItemTokens(_)
DataItemTokens(l) ==
    IF Len(l) = 1 THEN l[1]
    ELSE l[1] \o <<T("COMMA")>> \o DataItemTokens(Tail(l))

DataLine(l) == <<TKey("DATA")>> \o DataItemTokens(l)

DataStreams == { DataLine(l) : l \in DataLists }

Streams ==
    BinaryStreams \cup UnaryStreams \cup CallStreams \cup PrintStreams
    \cup EqualityStreams \cup ClosingStreams \cup DataStreams

\* print_item.PrintItem
PrintItem(exp, type) == [exp |-> exp, type |-> type]

\* Parser._ReadPrintList: the loop, items the list so far; the separator
\* that was peeked is left in the stream
RECURSIVE ReadPrintListRest(_, _, _)

\* One turn of the loop, exp the outcome of its self._ReadExp()
ReadPrintItem(ts, items, exp) ==
    IF ~exp.ok THEN Wrap("PRINT", exp)
    ELSE IF PeekFails(ts, exp.pos) THEN Wrap("PRINT", TokenException)
    ELSE IF AtTerminator(ts, exp.pos)
    THEN ReadPrintListRest(ts, exp.pos,
                           Append(items, PrintItem(exp.node, "FINAL")))
    ELSE IF PeekTok(ts, exp.pos).type \in {"SEMICOLON", "COMMA"}
    THEN ReadPrintListRest(ts, exp.pos,
             Append(items, PrintItem(exp.node, PeekTok(ts, exp.pos).type)))
    ELSE ReadPrintListRest(ts, exp.pos, items)

ReadPrintListRest(ts, pos, items) ==
    IF PeekFails(ts, pos) THEN Wrap("PRINT", TokenException)
    ELSE IF AtTerminator(ts, pos) THEN Ok(NodeList(items), pos)
    ELSE ReadPrintItem(ts, items, self("_ReadExp", <<ts, pos>>))

ReadPrintList(ts, pos) == ReadPrintListRest(ts, pos, <<>>)

\* What a reading method returned or raised, with the name of the method
Result(method, r) ==
    [method |-> method, ok |-> r.ok, node |-> r.node, pos |-> r.pos,
     err |-> r.err]

InitRead ==
    /\ stream \in Streams
    /\ readOut = NoResult
    /\ LexIdle
    /\ EvalIdle
    /\ ParseIdle
    /\ RunIdle
    /\ EnvIdle

\* Parser(stream)._ReadExp()
DoReadExp ==
    /\ readOut = NoResult
    /\ readOut' = Result("_ReadExp", self("_ReadExp", <<stream, 0>>))
    /\ UNCHANGED <<stream, lexVars, evalVars, parseVars, runVars, envVars>>

\* Parser(stream)._ReadStatement()
DoReadStatement ==
    /\ readOut = NoResult
    /\ readOut' = Result("_ReadStatement", self("_ReadStatement", <<stream, 0>>))
    /\ UNCHANGED <<stream, lexVars, evalVars, parseVars, runVars, envVars>>

\* Parser(stream)._ReadPrintList(), once the first token has been read
DoReadPrintList ==
    /\ readOut = NoResult
    /\ stream # <<>>
    /\ readOut' = Result("_ReadPrintList", ReadPrintList(stream, 1))
    /\ UNCHANGED <<stream, lexVars, evalVars, parseVars, runVars, envVars>>

NextRead ==
    \/ DoReadExp
    \/ DoReadStatement
    \/ DoReadPrintList

SpecRead == InitRead /\ [][NextRead]_vars

(***************************************************************************)
(* Claims about the parser's reading methods.                              *)
(***************************************************************************)
\* The level of a binary operator in the cascade, lowest first
Level(op) ==
    IF op = TKey("OR") THEN 0
    ELSE IF op = TKey("AND") THEN 1
    ELSE IF op.type \in {"EQUAL", "NEQUAL"} THEN 2
    ELSE IF op.type \in {"LT", "LEQ", "GT", "GEQ"} THEN 3
    ELSE IF op.type \in {"PLUS", "MINUS"} THEN 4
    ELSE IF op.type \in {"TIMES", "DIVIDE"} \/ op = TKey("MOD") THEN 5
    ELSE 7

\* The node of the binary operator op over the trees x and y
Apply(op, x, y) ==
    IF op = TKey("OR") THEN Node2("EOr", x, y)
    ELSE IF op = TKey("AND") THEN Node2("EAnd", x, y)
    ELSE IF op.type = "EQUAL" THEN ERelational("EQ", x, y)
    ELSE IF op.type = "NEQUAL" THEN ERelational("NEQ", x, y)
    ELSE IF op.type \in {"LT", "LEQ", "GT", "GEQ"}
    THEN ERelational(op.type, x, y)
    ELSE IF op.type = "PLUS" THEN Node2("EAdd", x, y)
    ELSE IF op.type = "MINUS" THEN Node2("ESubtract", x, y)
    ELSE IF op.type = "TIMES" THEN Node2("EMultiply", x, y)
    ELSE IF op.type = "DIVIDE" THEN Node2("EDivide", x, y)
    ELSE IF op = TKey("MOD") THEN Node2("EMod", x, y)
    ELSE Node2("EPower", x, y)

\* The tree of the i-th operand
Leaf(i) == [k |-> "ELValue", type |-> "ID_FLOAT", text |-> Operand(i).text]

\* The tree of x op1 y op2 z: the operator of the higher level deeper, two
\* of the same level nested to the left
Nested(op1, op2) ==
    IF Level(op1) >= Level(op2)
    THEN Apply(op2, Apply(op1, Leaf(1), Leaf(2)), Leaf(3))
    ELSE Apply(op1, Leaf(1), Apply(op2, Leaf(2), Leaf(3)))

\* The levels C15 speaks of: any two binary operators but ^ with ^
CascadePairs ==
    { pair \in BinaryOps \X BinaryOps :
        ~(pair[1] = T("POWER") /\ pair[2] = T("POWER")) }

\* C15: _ReadExp on `x op1 y op2 z`, the two operators of different levels
\* of the cascade or of one level other than ^, reads the whole expression
\* and returns the tree in which the operator of the higher level is the
\* deeper node, two operators of one level nested to the left.
C15_PrecedenceCascade ==
    \A pair \in CascadePairs :
        (stream = Binary(pair[1], pair[2]) /\ readOut.method = "_ReadExp")
            => readOut = Result("_ReadExp", Ok(Nested(pair[1], pair[2]), 5))

\* The same without the equality level
C15_CascadeWithoutEquality ==
    \A pair \in CascadePairs :
        (/\ stream = Binary(pair[1], pair[2])
         /\ readOut.method = "_ReadExp"
         /\ Level(pair[1]) # 2
         /\ Level(pair[2]) # 2)
            => readOut = Result("_ReadExp", Ok(Nested(pair[1], pair[2]), 5))

\* The tree of the chain of operands i .. n joined by ^, nested to the right
RECURSIVE PowerTree(_, _)
PowerTree(i, n) ==
    IF i = n THEN Leaf(i)
    ELSE Node2("EPower", Leaf(i), PowerTree(i + 1, n))

\* The tree of the unary operators ops before the tree t: the first one
\* outermost, no node for a +
RECURSIVE UnaryTree(_, _)
UnaryTree(ops, t) ==
    IF ops = <<>> THEN t
    ELSE IF Head(ops).type = "PLUS" THEN UnaryTree(Tail(ops), t)
    ELSE IF Head(ops).type = "MINUS"
    THEN Node1("ENegate", UnaryTree(Tail(ops), t))
    ELSE Node1("ENot", UnaryTree(Tail(ops), t))

\* C16: _ReadExp on unary operators followed by a chain a ^ b ^ c ... reads
\* all of it and returns the unary operators, the first one outermost and
\* no node for a unary +, over the chain nested to the right: ^ is
\* right-associative and binds tighter than a unary operator.
C16_PowerAndUnary ==
    \A ops \in TokSeqsUpTo(UnaryOps, MaxUnary), n \in 1..MaxChain :
        (stream = ops \o PowerChain(n) /\ readOut.method = "_ReadExp")
            => readOut = Result("_ReadExp",
                                Ok(UnaryTree(ops, PowerTree(1, n)),
                                   Len(stream)))

\* - a ^ b has been read as Negate(Power(a, b))
C16_Witness ==
    /\ stream = <<T("MINUS"), TId("a"), T("POWER"), TId("b")>>
    /\ readOut = Result("_ReadExp",
                        Ok(Node1("ENegate",
                                 Node2("EPower", Leaf(1), Leaf(2))), 4))

\* NOT - a ^ b ^ c has been read
C16_WitnessChain ==
    /\ stream = <<TKey("NOT"), T("MINUS")>> \o PowerChain(3)
    /\ readOut = Result("_ReadExp",
                        Ok(Node1("ENot", Node1("ENegate",
                               Node2("EPower", Leaf(1),
                                     Node2("EPower", Leaf(2), Leaf(3))))), 7))

\* The numbers of arguments fixed for a builtin name
Arity(name) ==
    IF name \in {"ATAN2", "INSTR", "LEFT$", "RIGHT$", "STRING$"} THEN {2}
    ELSE IF name = "MID$" THEN {3}
    ELSE IF name = "LOOK" THEN {2, 3}
    ELSE IF name = "SIZE" THEN {1, 2}
    ELSE {1}

\* The trees of the operands 1 .. n
Leaves(n) == [i \in 1..n |-> Leaf(i)]

\* C17: _ReadExp on NAME ( a1 , ... , an ) returns the call of NAME with
\* its n arguments when n lies within the arity fixed for NAME, and raises
\* a parse error for every other n, smaller or larger.
C17_CallArity ==
    \A name \in CallNames, n \in 0..MaxArgs :
        (stream = Call(name, n) /\ readOut.method = "_ReadExp")
            => /\ readOut.ok <=> n \in Arity(name)
               /\ readOut.ok => readOut.node = EFn(name, Leaves(n))
               /\ ~readOut.ok => readOut.err # <<>> /\ readOut.node = None

\* LOOK(a, b, c) has been read as a call with three arguments
C17_Witness ==
    /\ stream = Call("LOOK", 3)
    /\ readOut.method = "_ReadExp"
    /\ readOut.ok
    /\ Len(readOut.node.args) = 3

\* ABS(a, b) has been refused for its number of arguments
C17_WitnessRefused ==
    /\ stream = Call("ABS", 2)
    /\ readOut.method = "_ReadExp"
    /\ ~readOut.ok
    /\ readOut.err = <<"expression", "function call", "argument count">>

\* The tree of the expression of an item
ItemTree(e) ==
    IF e = <<TId("a")>> THEN Leaf(1)
    ELSE Node2("EAdd", EInt(1, 10), Leaf(2))

\* The pairs of a list of items, in source order
Pairs(l) == [i \in 1..Len(l) |-> PrintItem(ItemTree(l[i][1]), l[i][2])]

\* statement.SPrint
SPrint(items) == [k |-> "SPrint", args |-> items]

\* C18: _ReadStatement on PRINT e1 s1 e2 s2 ... en, followed by the end of
\* the line, ':' or ELSE, returns a PRINT statement holding the n pairs
\* {expression, separator} in source order, each separator as written and
\* end-of-list for a last item without one, and stops at the terminator
\* with every separator consumed.
C18_PrintList ==
    \A l \in ItemLists, rest \in Tails :
        (stream = PrintLine(l, rest) /\ readOut.method = "_ReadStatement")
            => readOut = Result("_ReadStatement",
                                Ok(SPrint(Pairs(l)), 1 + Len(ItemTokens(l))))

\* The same of _ReadPrintList called after the keyword: the list of pairs
C18_PrintListItself ==
    \A l \in ItemLists, rest \in Tails :
        (stream = PrintLine(l, rest) /\ readOut.method = "_ReadPrintList")
            => readOut = Result("_ReadPrintList",
                                Ok(NodeList(Pairs(l)), 1 + Len(ItemTokens(l))))

\* _ReadPrintList reads the list that is empty or one item without separator
C18_PrintListOfOne ==
    \A l \in ItemLists, rest \in Tails :
        (/\ stream = PrintLine(l, rest)
         /\ readOut.method = "_ReadPrintList"
         /\ \A i \in 1..Len(l) : l[i][2] = "FINAL")
            => readOut = Result("_ReadPrintList",
                                Ok(NodeList(Pairs(l)), 1 + Len(ItemTokens(l))))

(***************************************************************************)
(* The Environment: a chain of scopes, each the parent of the next.        *)
(* name: environment.py raises runtime.EvalException without importing     *)
(* runtime; the raise is read as the EvalException it names.               *)
(***************************************************************************)
MaxScopes == 3

MaxCalls == 2

NoBindings == [id \in {} |-> VNull]

\* system.State.folder
Folder == VString("")

\* Environment.__init__: the three mappings, and the two variables set
NewEnvironment ==
    [scalars |-> EnvSet(EnvSet(NoBindings, "pi", VFloat(314159, 0 - 5)),
                        "folder$", Folder),
     arrays |-> NoBindings,
     functions |-> NoBindings]

\* A chain of n scopes as constructed: Environment(), Environment(parent),
\* ...
NewChain(n) == [s \in 1..n |-> NewEnvironment]

\* The value a call returns, the error it raises, or its end without either
Value(v) == [kind |-> "value", val |-> v]

Raised(code) == [kind |-> "raise", val |-> code]

Done == [kind |-> "done", val |-> VNull]

\* value.ArrayValue(type, dims): dense storage, indices 0 .. dims[i]
ArrayValue(type, dims) ==
    [type |-> type, dims |-> dims,
     cells |-> [i \in { <<n>> : n \in 0..dims[1] } |->
                   IF type = "ID_STRING" THEN VString("") ELSE VInt(0)]]

\* ArrayValue.Get
ArrayGet(array, indices) ==
    IF indices \in DOMAIN array.cells THEN Value(array.cells[indices])
    ELSE Raised("ERR_BADINDEX")

\* ArrayValue.Set: the array after the call (unchanged when it raises)
ArraySet(array, indices, value) ==
    IF indices \in DOMAIN array.cells
    THEN [array EXCEPT !.cells[indices] = value]
    ELSE array

\* Environment.Get on the scope s of the chain
RECURSIVE ChainGet(_, _, _)
ChainGet(chain, s, id) ==
    IF id \in DOMAIN chain[s].scalars THEN chain[s].scalars[id]
    ELSE IF s > 1 THEN ChainGet(chain, s - 1, id)
    ELSE None

\* Environment.GetArray
RECURSIVE ChainGetArray(_, _, _, _)
ChainGetArray(chain, s, id, indices) ==
    IF id \in DOMAIN chain[s].arrays
    THEN ArrayGet(chain[s].arrays[id], indices)
    ELSE IF s > 1 THEN ChainGetArray(chain, s - 1, id, indices)
    ELSE Raised("ERR_BADVAR")

\* Environment.GetFunction
RECURSIVE ChainGetFunction(_, _, _)
ChainGetFunction(chain, s, id) ==
    IF id \in DOMAIN chain[s].functions THEN chain[s].functions[id]
    ELSE IF s > 1 THEN ChainGetFunction(chain, s - 1, id)
    ELSE None

\* Environment.MakeArray: the chain after the call
ChainMakeArray(chain, s, lvalue, dims) ==
    [chain EXCEPT ![s].arrays =
        EnvSet(@, lvalue.text, ArrayValue(lvalue.type, dims))]

\* Environment.Set as it would be were a variable an ancestor holds set there
ChainSetUpward(chain, s, id, value) ==
    LET holders == { a \in 1..s : id \in DOMAIN chain[a].scalars }
        target == IF holders = {} THEN s
                  ELSE CHOOSE a \in holders : \A b \in holders : b <= a
    IN  [chain EXCEPT ![target].scalars = EnvSet(@, id, value)]

\* Environment.Set
ChainSet(chain, s, id, value) ==
    [chain EXCEPT ![s].scalars = EnvSet(@, id, value)]

\* Environment.SetArray: the chain after the call; only the scope's own
\* arrays are looked at
ChainSetArray(chain, s, id, indices, value) ==
    IF id \in DOMAIN chain[s].arrays
    THEN [chain EXCEPT ![s].arrays[id] = ArraySet(@, indices, value)]
    ELSE chain

\* Environment.SetArray: what the call raises, the raise of the last line
\* being reached whenever ArrayValue.Set returns
SetArrayOutcome(chain, s, id, indices) ==
    IF id \in DOMAIN chain[s].arrays
       /\ indices \notin DOMAIN chain[s].arrays[id].cells
    THEN Raised("ERR_BADINDEX")
    ELSE Raised("ERR_BADVAR")

\* Environment.SetFunction
ChainSetFunction(chain, s, id, value) ==
    [chain EXCEPT ![s].functions = EnvSet(@, id, value)]

\* The names, values and subscripts the calls are made with
ScalarIds == {"x", "pi"}

ScalarValues == {VInt(1), VInt(2)}

FunctionIds == {"fnf"}

FunctionValues == {VString("x+1"), VString("x*2")}

ArrayLValues == {TId("m%")}

DimsSet == {<<1>>}

IndicesSet == {<<0>>, <<1>>, <<2>>}

ArrayValues == {VInt(7)}

InitEnv ==
    /\ \E n \in 1..MaxScopes : scopes = NewChain(n)
    /\ envOut = NoOutcome
    /\ envCalls = 0
    /\ LexIdle
    /\ EvalIdle
    /\ ParseIdle
    /\ RunIdle
    /\ ReadIdle

notEnv == <<lexVars, evalVars, parseVars, runVars, readVars>>

\* scopes[s].Get(id)
CallGet(s, id) ==
    /\ envOut' = Value(ChainGet(scopes, s, id))
    /\ UNCHANGED <<scopes, envCalls, notEnv>>

\* scopes[s].GetArray(id, indices)
CallGetArray(s, id, indices) ==
    /\ envOut' = ChainGetArray(scopes, s, id, indices)
    /\ UNCHANGED <<scopes, envCalls, notEnv>>

\* scopes[s].GetFunction(id)
CallGetFunction(s, id) ==
    /\ envOut' = Value(ChainGetFunction(scopes, s, id))
    /\ UNCHANGED <<scopes, envCalls, notEnv>>

\* scopes[s].MakeArray(lvalue, dims)
CallMakeArray(s, lvalue, dims) ==
    /\ envCalls < MaxCalls
    /\ scopes' = ChainMakeArray(scopes, s, lvalue, dims)
    /\ envOut' = Done
    /\ envCalls' = envCalls + 1
    /\ UNCHANGED notEnv

\* scopes[s].Set(id, value)
CallSet(s, id, value) ==
    /\ envCalls < MaxCalls
    /\ scopes' = ChainSet(scopes, s, id, value)
    /\ envOut' = Done
    /\ envCalls' = envCalls + 1
    /\ UNCHANGED notEnv

\* scopes[s].SetArray(id, indices, value)
CallSetArray(s, id, indices, value) ==
    /\ envCalls < MaxCalls
    /\ scopes' = ChainSetArray(scopes, s, id, indices, value)
    /\ envOut' = SetArrayOutcome(scopes, s, id, indices)
    /\ envCalls' = envCalls + 1
    /\ UNCHANGED notEnv

\* scopes[s].SetFunction(id, value)
CallSetFunction(s, id, value) ==
    /\ envCalls < MaxCalls
    /\ scopes' = ChainSetFunction(scopes, s, id, value)
    /\ envOut' = Done
    /\ envCalls' = envCalls + 1
    /\ UNCHANGED notEnv

NextEnv ==
    \E s \in 1..Len(scopes) :
        \/ \E id \in ScalarIds : CallGet(s, id)
        \/ \E lvalue \in ArrayLValues, indices \in IndicesSet :
               CallGetArray(s, lvalue.text, indices)
        \/ \E id \in FunctionIds : CallGetFunction(s, id)
        \/ \E lvalue \in ArrayLValues, dims \in DimsSet :
               CallMakeArray(s, lvalue, dims)
        \/ \E id \in ScalarIds, value \in ScalarValues :
               CallSet(s, id, value)
        \/ \E lvalue \in ArrayLValues, indices \in IndicesSet,
              value \in ArrayValues :
               CallSetArray(s, lvalue.text, indices, value)
        \/ \E id \in FunctionIds, value \in FunctionValues :
               CallSetFunction(s, id, value)

SpecEnv == InitEnv /\ [][NextEnv]_vars


\* C26: _ReadExp on `a = b` and on `a <> b` consumes the operator, parses
\* the right operand and returns the relational node over the two operands
\* with the stream just after b; `a = b <> c` (any two of = and <>) is read
\* whole and nests to the left.
C26_EqualityLevel ==
    \A op1 \in {T("EQUAL"), T("NEQUAL")} :
        /\ (stream = Equality(op1) /\ readOut.method = "_ReadExp")
               => readOut = Result("_ReadExp",
                                   Ok(Apply(op1, Leaf(1), Leaf(2)), 3))
        /\ \A op2 \in {T("EQUAL"), T("NEQUAL")} :
               (stream = Binary(op1, op2) /\ readOut.method = "_ReadExp")
                   => readOut = Result("_ReadExp",
                          Ok(Apply(op2, Apply(op1, Leaf(1), Leaf(2)), Leaf(3)), 5))

\* The tree of ABS(1)
AbsTree == EFn("ABS", <<EInt(1, 10)>>)

\* C27: after a parenthesized builtin call the closing parenthesis has been
\* consumed: ABS(1) is read whole, ABS(1) + 2 is read as the sum of the call
\* and 2, (ABS(1)) as the call in parentheses, and a call without its
\* closing parenthesis is a parse error.
C27_CallClosed ==
    readOut.method = "_ReadExp"
        => /\ stream = AbsOfOne
               => readOut = Result("_ReadExp", Ok(AbsTree, 4))
           /\ stream = AbsPlusTwo
               => readOut = Result("_ReadExp",
                      Ok(Node2("EAdd", AbsTree, EInt(2, 10)), 6))
           /\ stream = AbsInParens
               => readOut = Result("_ReadExp", Ok(Node1("EParen", AbsTree), 6))
           /\ stream = AbsUnclosed => ~readOut.ok /\ readOut.err # <<>>

\* What the call itself yields is the tree of ABS(1) in each of the four
C27_CallTreeRead ==
    (readOut.method = "_ReadExp" /\ stream \in ClosingStreams)
        => /\ readOut.ok
           /\ \/ readOut.node = AbsTree
              \/ readOut.node = Node1("EParen", AbsTree)


\* The value of what stands at a position of a DATA statement
DataValue(item) ==
    IF item = <<>> THEN VNull
    ELSE IF item[1].type = "MINUS"
    THEN (IF item[2].type = "INT" THEN VInt(0 - item[2].num)
          ELSE VFloat(0 - item[2].num, item[2].exp))
    ELSE IF item[1].type = "INT" THEN VInt(item[1].num)
    ELSE IF item[1].type = "FLOAT" THEN VFloat(item[1].num, item[1].exp)
    ELSE VString(item[1].text)

DataValues(l) == [i \in 1..Len(l) |-> DataValue(l[i])]

Signed(l) == \E i \in 1..Len(l) : l[i] # <<>> /\ l[i][1].type = "MINUS"

\* C28: the item list of a DATA statement is read to its end and yields one
\* value per position, in order: a number keeps its kind and value, a number
\* after a minus sign is negated in its kind, a string, a bare word, a
\* keyword and the name of a function give a String, and an empty position,
\* and only an empty position, gives Null.
C28_DataItems ==
    \A l \in DataLists :
        (stream = DataLine(l) /\ readOut.method = "_ReadStatement")
            => /\ readOut.ok
               /\ readOut.node = [k |-> "SData", vals |-> DataValues(l)]
               /\ readOut.pos = Len(stream)

\* The same of the lists without a minus sign
C28_UnsignedDataItems ==
    \A l \in DataLists :
        (stream = DataLine(l) /\ readOut.method = "_ReadStatement" /\ ~Signed(l))
            => /\ readOut.ok
               /\ readOut.node = [k |-> "SData", vals |-> DataValues(l)]
               /\ readOut.pos = Len(stream)

(***************************************************************************)
(* Claims about the Environment.                                           *)
(***************************************************************************)
\* The ancestors of the scope s that bind id in the mapping named
Holders(chain, s, mapping, id) ==
    { a \in 1..(s - 1) : id \in DOMAIN chain[a][mapping] }

\* The binding of the nearest ancestor that has one, None when none has
NearestBinding(chain, s, mapping, id) ==
    LET holders == Holders(chain, s, mapping, id)
    IN  IF holders = {} THEN None
        ELSE chain[CHOOSE a \in holders : \A b \in holders : b <= a][mapping][id]

\* The mapping m with id bound to v and every other binding as before
Bound(m, id, v) ==
    /\ DOMAIN m' = DOMAIN m \cup {id}
    /\ m'[id] = v
    /\ \A other \in DOMAIN m \ {id} : m'[other] = m[other]

\* Only the mapping named of the scope s has changed in the chain
OnlyLocal(s, mapping) ==
    /\ Len(scopes') = Len(scopes)
    /\ \A a \in 1..Len(scopes) : a # s => scopes'[a] = scopes[a]
    /\ \A other \in {"scalars", "arrays", "functions"} \ {mapping} :
           scopes'[s][other] = scopes[s][other]

GetStep(s) ==
    /\ \A id \in ScalarIds :
           (CallGet(s, id) /\ id \notin DOMAIN scopes[s].scalars)
               => envOut' = Value(NearestBinding(scopes, s, "scalars", id))
    /\ \A id \in FunctionIds :
           (CallGetFunction(s, id) /\ id \notin DOMAIN scopes[s].functions)
               => envOut' = Value(NearestBinding(scopes, s, "functions", id))

SetStep(s) ==
    /\ \A id \in ScalarIds, value \in ScalarValues :
           CallSet(s, id, value)
               => /\ OnlyLocal(s, "scalars")
                  /\ LET m == scopes[s].scalars IN Bound(m, id, value)
    /\ \A id \in FunctionIds, value \in FunctionValues :
           CallSetFunction(s, id, value)
               => /\ OnlyLocal(s, "functions")
                  /\ LET m == scopes[s].functions IN Bound(m, id, value)
    /\ \A lvalue \in ArrayLValues, dims \in DimsSet :
           CallMakeArray(s, lvalue, dims)
               => /\ OnlyLocal(s, "arrays")
                  /\ lvalue.text \in DOMAIN scopes'[s].arrays
                  /\ scopes'[s].arrays[lvalue.text].dims = dims

\* C19: Get(id) and GetFunction(id) on a scope that has no binding of its
\* own for id return the binding of the nearest ancestor that has one, None
\* when no scope has one; Set, SetFunction and MakeArray on a scope bind the
\* name in that scope's own mapping and change nothing else: every other
\* scope of the chain and the scope's other mappings stay as they were.
C19_ScopeChain ==
    [][\A s \in 1..Len(scopes) : GetStep(s) /\ SetStep(s)]_vars

\* Get("x") has returned the binding of the parent, which differs from the
\* one of the grandparent, on a scope that has none
C19_Witness ==
    /\ Len(scopes) = 3
    /\ "x" \in DOMAIN scopes[1].scalars
    /\ "x" \in DOMAIN scopes[2].scalars
    /\ "x" \notin DOMAIN scopes[3].scalars
    /\ scopes[1].scalars["x"] # scopes[2].scalars["x"]
    /\ envOut = Value(scopes[2].scalars["x"])

\* The array id is declared in the scope s or in an ancestor of it
Declared(chain, s, id) == \E a \in 1..s : id \in DOMAIN chain[a].arrays

InBound(array, indices) ==
    /\ Len(indices) = Len(array.dims)
    /\ \A i \in 1..Len(indices) : indices[i] \in 0..array.dims[i]

SetArrayStep(s, id, indices) ==
    /\ \A value \in ArrayValues :
           (/\ CallSetArray(s, id, indices, value)
            /\ id \in DOMAIN scopes[s].arrays
            /\ InBound(scopes[s].arrays[id], indices))
               => /\ envOut' = Done
                  /\ ChainGetArray(scopes', s, id, indices) = Value(value)
    /\ \A value \in ArrayValues :
           (CallSetArray(s, id, indices, value) /\ ~Declared(scopes, s, id))
               => envOut' = Raised("ERR_BADVAR") /\ scopes' = scopes
    /\ (CallGetArray(s, id, indices) /\ ~Declared(scopes, s, id))
           => envOut' = Raised("ERR_BADVAR") /\ scopes' = scopes

\* C20: SetArray(id, indices, v) on a scope that has declared the array id
\* with MakeArray, every index within its bound, stores v and raises no
\* error, so that GetArray(id, indices) returns v afterwards; SetArray and
\* GetArray on a name no scope has declared raise the undefined-variable
\* error and change no mapping.
C20_ArrayStore ==
    [][\A s \in 1..Len(scopes), lvalue \in ArrayLValues,
          indices \in IndicesSet :
           SetArrayStep(s, lvalue.text, indices)]_vars

\* The same but for the error raised: the value is stored
C20_StoredButRaises ==
    [][\A s \in 1..Len(scopes), lvalue \in ArrayLValues,
          indices \in IndicesSet, value \in ArrayValues :
           (/\ CallSetArray(s, lvalue.text, indices, value)
            /\ lvalue.text \in DOMAIN scopes[s].arrays
            /\ InBound(scopes[s].arrays[lvalue.text], indices))
               => /\ envOut' = Raised("ERR_BADVAR")
                  /\ ChainGetArray(scopes', s, lvalue.text, indices)
                        = Value(value)]_vars

(***************************************************************************)
(* Claims about the session.                                               *)
(***************************************************************************)
\* The line last typed did not lex or did not parse: p.read() raised, or
\* caught what reading the statements after a line number raised
LineFailed == parseOut.kind = "ParserException" \/ parseOut.caught # <<>>

\* C24: Basic.Execute returns for every line typed; when the line did not
\* lex or did not parse, the failure is written to the screen and False is
\* returned, and True is returned only for a line that parsed as a whole.
C24_ExecuteReports ==
    executed.returned # "none"
        => /\ LineFailed
               => executed.returned = "False" /\ executed.screen # <<>>
           /\ executed.returned = "True" => ~LineFailed

\* The same of the lines typed without a line number
C24_ImmediateLinesReport ==
    (executed.returned # "none" /\ parseOut.kind # "None")
        => /\ LineFailed
               => executed.returned = "False" /\ executed.screen # <<>>
           /\ executed.returned = "True" => ~LineFailed

\* C25: when the statements that follow a line number fail to parse,
\* Parser.Read raises an error, which reaches the user: it does not return
\* None as it does for a line that was stored.
C25_ParseFailureRaised ==
    [][\A ts \in InputLines :
          (/\ Read(ts)
           /\ PeekTok(ts, 0).type = "INT"
           /\ ~ReadStatementList(ts, 1).ok)
              => parseOut'.kind = "ParserException"]_vars

\* C29: only the global scope is seeded with pi and folder$: a scope made
\* with a parent has no scalar binding of its own before a Set on it, and
\* once the global scope's pi is reassigned, Get("pi") on a scope where pi
\* was never Set returns the value the global scope has now.
C29_OnlyGlobalSeeded ==
    [][envCalls = 0
          => /\ \A s \in 2..Len(scopes) : scopes[s].scalars = NoBindings
             /\ \A value \in ScalarValues :
                    CallSet(1, "pi", value)
                        => \A s \in 2..Len(scopes) :
                               ChainGet(scopes', s, "pi") = value]_vars

\* Every scope holds pi and folder$ as it is made, the global one included
C29_EveryScopeSeeded ==
    envCalls = 0 => \A s \in 1..Len(scopes) : scopes[s] = NewEnvironment

\* The offset of the first character from off on that is not whitespace,
\* the length of the buffer when there is none
RECURSIVE PastWhitespace(_, _)
PastWhitespace(buf, off) ==
    IF off >= Len(buf) \/ ~IsWhitespace(CharAt(buf, off)) THEN off
    ELSE PastWhitespace(buf, off + 1)

\* C30: a call of the lexer made in front of whitespace skips it: it
\* raises no error for it, and it returns the token that starts at the next
\* character that is not whitespace, the EOF token when there is none.
C30_WhitespaceSkipped ==
    [][ ( /\ peek = NoToken
          /\ offset < Len(buffer)
          /\ IsWhitespace(CharAt(buffer, offset))
          /\ Get \/ Peek )
        => IF PastWhitespace(buffer, offset) = Len(buffer)
           THEN ReturnedEOF(lexOut')
           ELSE ReadToken(buffer, PastWhitespace(buffer, offset)).kind = "token"
                    => lexOut' = ReadToken(buffer, PastWhitespace(buffer, offset)) ]_vars

\* Whitespace where a token would begin raises the lexical error
C30_WhitespaceRaises ==
    [][ ( /\ peek = NoToken
          /\ offset < Len(buffer)
          /\ IsWhitespace(CharAt(buffer, offset))
          /\ Get \/ Peek )
        => lexOut'.kind = "TokenException" ]_vars
====
